---- MODULE Spec2Model ----
(***************************************************************************)
(* A model of the Continuum node gateway: the AuthManager (token lookup,   *)
(* per-model authorization, sliding-window rate limiter), the ModelRouter  *)
(* routing table, and the admission pipelines of the three transports      *)
(* (HTTP POST /v1/chat/completions, the WebSocket endpoint, and one TCP    *)
(* session of the Continuum protocol).                                     *)
(*                                                                         *)
(* Strings that the code takes apart (the rate_limit policy string) are    *)
(* tuples of one-character strings; strings that are only compared for     *)
(* equality (tokens, model ids) are TLA+ strings.  Time is time.time() in  *)
(* whole seconds; the clock never runs backwards.                          *)
(***************************************************************************)
EXTENDS Integers, Sequences, FiniteSets, TLC

VARIABLES
    users,                \* AuthManager.users: token -> User
    rate_limit_tracker,   \* AuthManager.rate_limit_tracker: token -> [timestamps]
    model_providers,      \* ModelRouter.model_providers: model id -> provider instance
    model_configs,        \* ModelRouter.model_configs: model id -> raw config
    now,                  \* the value time.time() returns
    ticks,                \* how many times the clock has advanced
    authenticated_user,   \* _handle_client's local: the TCP session's bound user
    tcp_open,             \* whether the TCP connection is being served
    last,                 \* the last request served and the answer it got
    denied_since,         \* token -> time of the first denial since its last allowed check
    denied_ever,          \* token -> time of the first denial ever
    sessions,             \* connection -> the _handle_client coroutine serving it
    codec,                \* the last call of pack_message and of unpack on its bytes
    conn,                 \* one connection with the bytes in flight on it
    model_router,         \* a ModelRouter of its own, as the unit tests make it
    http,                 \* the HTTP exchange in progress and its response
    ws,                   \* the WebSocket connection and what was sent on it
    granted,              \* token -> the times its checks were allowed, in order
    relay                 \* one relay loop with the place its coroutine stands at

vars == << users, rate_limit_tracker, model_providers, model_configs, now, ticks,
           authenticated_user, tcp_open, last, denied_since, denied_ever,
           sessions, codec, conn, model_router, http, ws, granted, relay >>

\* the AuthManager, the ModelRouter, the clock and the request last served
gateway == << users, rate_limit_tracker, model_providers, model_configs, now, ticks,
              authenticated_user, tcp_open, last, denied_since, denied_ever >>

\* the ModelRouter called alone, and the two transports of the HTTP bridge
\* with their responses
bridge == << model_router, http, ws >>

\* what is watched of the limiter and of one relay loop
watch == << granted, relay >>

\* Python's None, and a value that is not None: an optional value is a
\* sequence of at most one element
None == << >>

Some(x) == << x >>

\* the value of an optional that is not None
The(opt) == opt[1]

\* ------------------------------------------------------------------ bounds

\* how many times the clock may advance in a behaviour of the gateway
MaxTicks == 1

\* how many times the clock may advance between direct calls of the AuthManager
MaxAuthTicks == 3

\* the amounts (seconds) by which the clock advances between two requests to
\* the gateway, and between two direct calls of the AuthManager
TickSteps == { 1, 60 }

AuthTickSteps == { 1, 59, 60 }

\* --------------------------------------------------------- configuration

\* users.yml as load_users reads it: one record per user, in file order
UsersYml ==
    << [token |-> "dev-token", name |-> "Developer",
        permissions |-> << "llama3", "gpt-4o" >>,
        rate_limit |-> << "2", "/", "m", "i", "n", "u", "t", "e" >>],
       [token |-> "guest-token", name |-> "Guest",
        permissions |-> << >>,
        rate_limit |-> << "1", "/", "s", "e", "c", "o", "n", "d" >>] >>

\* models.yml as load_models reads it: one record per model, in file order
ModelsYml ==
    << [id |-> "llama3", provider |-> "ollama"],
       [id |-> "gpt-4o", provider |-> "anthropic"] >>

\* the tokens a client may present: the two configured ones, one that is
\* not configured, and the empty string
Tokens == { "dev-token", "guest-token", "bad-token", "" }

\* the model ids a client may ask for: a routed one, a configured one with no
\* provider, one that is configured nowhere (and extends a permitted id), and
\* the empty string
Models == { "llama3", "gpt-4o", "llama3:8b", "" }

\* ------------------------------------------------------------ AuthManager

\* load_users: the table keyed by token; a later record with the same token
\* overwrites an earlier one
RECURSIVE LoadUsersFrom(_, _)
LoadUsersFrom(cfg, table) ==
    IF cfg = << >> THEN table
    ELSE LoadUsersFrom(Tail(cfg),
             (Head(cfg).token :> Head(cfg)) @@ table)

LoadUsers(cfg) == LoadUsersFrom(cfg, << >>)

\* authenticate: dict.get, the User or None
Authenticate(table, token) ==
    IF token \in DOMAIN table THEN Some(table[token]) ELSE None

\* `x in list`
InList(x, list) == \E i \in 1..Len(list) : list[i] = x

\* a faulty variant of is_authorized that accepts any id a permitted id is a prefix of
PrefixOf == { << "llama3", "llama3:8b" >> }

IsAuthorizedPrefix(table, token, model_id) ==
    /\ Authenticate(table, token) # None
    /\ \/ InList(model_id, The(Authenticate(table, token)).permissions)
       \/ \E p \in PrefixOf :
            /\ p[2] = model_id
            /\ InList(p[1], The(Authenticate(table, token)).permissions)

\* is_authorized
IsAuthorized(table, token, model_id) ==
    LET user == Authenticate(table, token) IN
    IF user = None THEN FALSE
    ELSE InList(model_id, The(user).permissions)

\* str.split(sep): the pieces of s between the occurrences of sep
RECURSIVE SplitFrom(_, _, _, _)
SplitFrom(s, sep, piece, done) ==
    IF s = << >> THEN Append(done, piece)
    ELSE IF Head(s) = sep THEN SplitFrom(Tail(s), sep, << >>, Append(done, piece))
    ELSE SplitFrom(Tail(s), sep, Append(piece, Head(s)), done)

Split(s, sep) == SplitFrom(s, sep, << >>, << >>)

Digits == { "0", "1", "2", "3", "4", "5", "6", "7", "8", "9" }

DigitValue(c) ==
    CASE c = "0" -> 0 [] c = "1" -> 1 [] c = "2" -> 2 [] c = "3" -> 3
      [] c = "4" -> 4 [] c = "5" -> 5 [] c = "6" -> 6 [] c = "7" -> 7
      [] c = "8" -> 8 [] c = "9" -> 9

RECURSIVE DigitsValue(_, _)
DigitsValue(s, acc) ==
    IF s = << >> THEN acc
    ELSE DigitsValue(Tail(s), 10 * acc + DigitValue(Head(s)))

\* int(s) for strings over digits, "+" and "-": the value, or None where
\* int raises ValueError
PyInt(s) ==
    LET signed == s # << >> /\ Head(s) \in { "+", "-" }
        body == IF signed THEN Tail(s) ELSE s
    IN IF body = << >> \/ \E i \in 1..Len(body) : body[i] \notin Digits
       THEN None
       ELSE IF signed /\ Head(s) = "-" THEN Some(0 - DigitsValue(body, 0))
       ELSE Some(DigitsValue(body, 0))

\* the time_multipliers table
TimeMultipliers ==
    ( << "s", "e", "c", "o", "n", "d" >> :> 1 ) @@
    ( << "m", "i", "n", "u", "t", "e" >> :> 60 ) @@
    ( << "h", "o", "u", "r" >> :> 3600 ) @@
    ( << "d", "a", "y" >> :> 86400 )

\* a faulty variant of _parse_rate_limit that falls back to both defaults on
\* an unknown unit
ParseRateLimitStrictUnit(rate_limit_str) ==
    LET parts == Split(rate_limit_str, "/") IN
    IF Len(parts) # 2 THEN << 10, 60 >>
    ELSE IF PyInt(parts[1]) = None THEN << 10, 60 >>
    ELSE IF parts[2] \in DOMAIN TimeMultipliers
    THEN << The(PyInt(parts[1])), TimeMultipliers[parts[2]] >>
    ELSE << 10, 60 >>

\* a faulty variant of _parse_rate_limit that reads the first two parts of a
\* longer split
ParseRateLimitLenientSplit(rate_limit_str) ==
    LET parts == Split(rate_limit_str, "/") IN
    IF Len(parts) < 2 THEN << 10, 60 >>
    ELSE IF PyInt(parts[1]) = None THEN << 10, 60 >>
    ELSE << The(PyInt(parts[1])),
            IF parts[2] \in DOMAIN TimeMultipliers
            THEN TimeMultipliers[parts[2]] ELSE 60 >>

\* _parse_rate_limit: (limit, period in seconds); (10, 60) when the unpacking
\* of the split or int() raises ValueError
ParseRateLimit(rate_limit_str) ==
    LET parts == Split(rate_limit_str, "/") IN
    IF Len(parts) # 2 THEN << 10, 60 >>
    ELSE IF PyInt(parts[1]) = None THEN << 10, 60 >>
    ELSE << The(PyInt(parts[1])),
            IF parts[2] \in DOMAIN TimeMultipliers
            THEN TimeMultipliers[parts[2]] ELSE 60 >>

\* self.rate_limit_tracker[token] of the defaultdict(list), read only
Window(tracker, token) ==
    IF token \in DOMAIN tracker THEN tracker[token] ELSE << >>

\* [t for t in window if t > cutoff_time]
Fresh(window, cutoff_time) == SelectSeq(window, LAMBDA t : t > cutoff_time)

\* a faulty variant of check_rate_limit that tests the count with > instead of >=
CheckRateLimitOffByOne(table, tracker, token, current_time) ==
    LET user == Authenticate(table, token) IN
    IF user = None THEN [allowed |-> FALSE, tracker |-> tracker]
    ELSE LET policy == ParseRateLimit(The(user).rate_limit)
             kept == Fresh(Window(tracker, token), current_time - policy[2])
         IN IF Len(kept) > policy[1]
            THEN [allowed |-> FALSE, tracker |-> (token :> kept) @@ tracker]
            ELSE [allowed |-> TRUE,
                  tracker |-> (token :> Append(kept, current_time)) @@ tracker]

\* a faulty variant of check_rate_limit that keeps a timestamp exactly one period old
CheckRateLimitKeepsBoundary(table, tracker, token, current_time) ==
    LET user == Authenticate(table, token) IN
    IF user = None THEN [allowed |-> FALSE, tracker |-> tracker]
    ELSE LET policy == ParseRateLimit(The(user).rate_limit)
             kept == SelectSeq(Window(tracker, token),
                               LAMBDA t : t >= current_time - policy[2])
         IN IF Len(kept) >= policy[1]
            THEN [allowed |-> FALSE, tracker |-> (token :> kept) @@ tracker]
            ELSE [allowed |-> TRUE,
                  tracker |-> (token :> Append(kept, current_time)) @@ tracker]

\* a faulty variant of check_rate_limit in which a denied check records its own time
CheckRateLimitRecordsDenied(table, tracker, token, current_time) ==
    LET user == Authenticate(table, token) IN
    IF user = None THEN [allowed |-> FALSE, tracker |-> tracker]
    ELSE LET policy == ParseRateLimit(The(user).rate_limit)
             kept == Fresh(Window(tracker, token), current_time - policy[2])
         IN IF Len(kept) >= policy[1]
            THEN [allowed |-> FALSE,
                  tracker |-> (token :> Append(kept, current_time)) @@ tracker]
            ELSE [allowed |-> TRUE,
                  tracker |-> (token :> Append(kept, current_time)) @@ tracker]

\* a faulty variant of check_rate_limit that reads the defaultdict before it
\* looks the user up, which makes an empty window for any token
CheckRateLimitTouchesWindow(table, tracker, token, current_time) ==
    LET user == Authenticate(table, token)
        touched == (token :> Window(tracker, token)) @@ tracker
    IN IF user = None THEN [allowed |-> FALSE, tracker |-> touched]
       ELSE LET policy == ParseRateLimit(The(user).rate_limit)
                kept == Fresh(Window(tracker, token), current_time - policy[2])
            IN IF Len(kept) >= policy[1]
               THEN [allowed |-> FALSE, tracker |-> (token :> kept) @@ tracker]
               ELSE [allowed |-> TRUE,
                     tracker |-> (token :> Append(kept, current_time)) @@ tracker]

\* a faulty variant of check_rate_limit that counts in fixed buckets of one
\* period: the window empties whenever the clock enters the next bucket
CheckRateLimitFixedBucket(table, tracker, token, current_time) ==
    LET user == Authenticate(table, token) IN
    IF user = None THEN [allowed |-> FALSE, tracker |-> tracker]
    ELSE LET policy == ParseRateLimit(The(user).rate_limit)
             kept == SelectSeq(Window(tracker, token),
                               LAMBDA t : t \div policy[2] = current_time \div policy[2])
         IN IF Len(kept) >= policy[1]
            THEN [allowed |-> FALSE, tracker |-> (token :> kept) @@ tracker]
            ELSE [allowed |-> TRUE,
                  tracker |-> (token :> Append(kept, current_time)) @@ tracker]

\* a faulty variant of check_rate_limit that prunes the window of every token it finds
CheckRateLimitPrunesAll(table, tracker, token, current_time) ==
    LET user == Authenticate(table, token) IN
    IF user = None THEN [allowed |-> FALSE, tracker |-> tracker]
    ELSE LET policy == ParseRateLimit(The(user).rate_limit)
             pruned == [t \in DOMAIN tracker |->
                           Fresh(tracker[t], current_time - policy[2])]
             kept == Fresh(Window(tracker, token), current_time - policy[2])
         IN IF Len(kept) >= policy[1]
            THEN [allowed |-> FALSE, tracker |-> (token :> kept) @@ pruned]
            ELSE [allowed |-> TRUE,
                  tracker |-> (token :> Append(kept, current_time)) @@ pruned]

\* check_rate_limit at time current_time: the answer and the tracker it
\* leaves.  The method has no await: it runs to its return in one step of
\* the event loop.
CheckRateLimit(table, tracker, token, current_time) ==
    LET user == Authenticate(table, token) IN
    IF user = None THEN [allowed |-> FALSE, tracker |-> tracker]
    ELSE LET policy == ParseRateLimit(The(user).rate_limit)
             cutoff_time == current_time - policy[2]
             kept == Fresh(Window(tracker, token), cutoff_time)
         IN IF Len(kept) >= policy[1]
            THEN [allowed |-> FALSE, tracker |-> (token :> kept) @@ tracker]
            ELSE [allowed |-> TRUE,
                  tracker |-> (token :> Append(kept, current_time)) @@ tracker]

\* ------------------------------------------------------------ ModelRouter

\* str.lower() on the provider types that occur
Lower(s) ==
    CASE s = "Ollama" -> "ollama"
      [] s = "OLLAMA" -> "ollama"
      [] s = "OpenAI" -> "openai"
      [] s = "OPENAI" -> "openai"
      [] OTHER -> s

\* os.getenv("OPENAI_API_KEY") of the process: not set
OpenAIApiKey == None

\* _create_provider for the nth entry: a fresh provider object, or None
CreateProvider(provider_type, nth) ==
    IF Lower(provider_type) = "ollama"
    THEN Some([class |-> "OllamaProvider", obj |-> nth])
    ELSE IF Lower(provider_type) = "openai"
    THEN IF OpenAIApiKey = None THEN None
         ELSE Some([class |-> "OpenAIProvider", obj |-> nth])
    ELSE None

\* load_models: the loop over config['models'], from entry nth on
RECURSIVE LoadModelsFrom(_, _, _)
LoadModelsFrom(cfg, nth, router) ==
    IF nth > Len(cfg) THEN router
    ELSE LET model_config == cfg[nth]
             provider_instance == CreateProvider(model_config.provider, nth)
             configs == (model_config.id :> model_config) @@ router.model_configs
         IN LoadModelsFrom(cfg, nth + 1,
                [model_configs |-> configs,
                 model_providers |->
                     IF provider_instance # None
                     THEN (model_config.id :> The(provider_instance))
                              @@ router.model_providers
                     ELSE router.model_providers])

LoadModels(cfg) ==
    LoadModelsFrom(cfg, 1, [model_configs |-> << >>, model_providers |-> << >>])

\* get_provider_for_model: dict.get, the provider or None
GetProviderForModel(providers, model_id) ==
    IF model_id \in DOMAIN providers THEN Some(providers[model_id]) ELSE None

\* ------------------------------------------------------------- the state

\* `last` before any request: token and model are what the request carried;
\* was is the identity the TCP session had when the frame arrived; started
\* tells whether the provider's stream_completion was called
NoRequest ==
    [transport |-> "none", kind |-> "none", token |-> None, model |-> None,
     was |-> None, outcome |-> "none", started |-> FALSE]

\* the record of a request that was just answered
Answer(transport, kind, token, model, outcome, started) ==
    [transport |-> transport, kind |-> kind, token |-> token, model |-> model,
     was |-> None, outcome |-> outcome, started |-> started]

\* the record of a TCP frame that was just answered
TcpAnswer(kind, token, model, was, outcome, started) ==
    [transport |-> "tcp", kind |-> kind, token |-> token, model |-> model,
     was |-> was, outcome |-> outcome, started |-> started]

\* the connections the listener of start_server may be given
Conns == { 1, 2 }

\* a connection the listener has not accepted yet: state is where its
\* _handle_client coroutine stands ("listening" before it exists, "reading"
\* in unpack_message_from_stream, "relaying" in the async for of
\* _handle_completion, "closed" after the finally), user is its local
\* authenticated_user, frame the frame read last, written the frames written
\* in answer to it, yielded the fragments the provider has yielded for it,
\* provider where the stream of provider.stream_completion stands for it
\* ("idle": not called, "streaming", "ended", "raised")
NotAccepted ==
    [state |-> "listening", user |-> None, frame |-> None, written |-> << >>,
     yielded |-> << >>, provider |-> "idle"]

\* the codec before any call
NoCall == [op |-> "none"]

\* the byte-level connection before it is accepted
NotConnected == [state |-> "listening"]

\* before ModelRouter() is called
NoRouter == [state |-> "none"]

\* before any HTTP request of the bridge
NoExchange == [state |-> "none"]

\* before the WebSocket endpoint is connected to
NotOpened == [state |-> "none"]

\* before a relay loop is entered
NoRelay == [state |-> "none"]

Init ==
    /\ users = LoadUsers(UsersYml)
    /\ rate_limit_tracker = << >>
    /\ model_providers = LoadModels(ModelsYml).model_providers
    /\ model_configs = LoadModels(ModelsYml).model_configs
    /\ now = 0
    /\ ticks = 0
    /\ authenticated_user = None
    /\ tcp_open = FALSE
    /\ last = NoRequest
    /\ denied_since = [t \in DOMAIN LoadUsers(UsersYml) |-> None]
    /\ denied_ever = [t \in DOMAIN LoadUsers(UsersYml) |-> None]
    /\ sessions = [c \in Conns |-> NotAccepted]
    /\ codec = NoCall
    /\ conn = NotConnected
    /\ model_router = NoRouter
    /\ http = NoExchange
    /\ ws = NotOpened
    /\ granted = [t \in DOMAIN LoadUsers(UsersYml) |-> << >>]
    /\ relay = NoRelay

\* time passes between two steps of the event loop
Tick(d) ==
    /\ ticks < MaxTicks
    /\ now' = now + d
    /\ ticks' = ticks + 1
    /\ UNCHANGED << users, rate_limit_tracker, model_providers, model_configs,
                    authenticated_user, tcp_open, last, denied_since, denied_ever >>

\* time passes between two direct calls of the AuthManager
AuthTick(d) ==
    /\ ticks < MaxAuthTicks
    /\ now' = now + d
    /\ ticks' = ticks + 1
    /\ UNCHANGED << users, rate_limit_tracker, model_providers, model_configs,
                    authenticated_user, tcp_open, last, denied_since, denied_ever >>

\* ------------------------------------------------------------------ HTTP

\* the Authorization headers a client may send: none, or a scheme prefix of
\* seven characters followed by a token
NoHeader == None

Headers ==
    { NoHeader } \cup { Some([prefix |-> "Basic  ", rest |-> "dev-token"]) } \cup
    { Some(h) : h \in [prefix : { "Bearer " }, rest : Tokens] }

\* a faulty variant of the admission order: authorization before the rate limit
AdmitAuthorizesFirst(token, model, tracker) ==
    IF Authenticate(users, token) = None
    THEN [step |-> "authenticate", tracker |-> tracker, provider |-> None]
    ELSE IF ~ IsAuthorized(users, token, model)
    THEN [step |-> "authorize", tracker |-> tracker, provider |-> None]
    ELSE LET rl == CheckRateLimit(users, tracker, token, now) IN
         IF ~ rl.allowed
         THEN [step |-> "rate_limit", tracker |-> rl.tracker, provider |-> None]
         ELSE IF GetProviderForModel(model_providers, model) = None
         THEN [step |-> "provider", tracker |-> rl.tracker, provider |-> None]
         ELSE [step |-> "ok", tracker |-> rl.tracker,
               provider |-> GetProviderForModel(model_providers, model)]

\* a faulty variant of the admission that gives the slot back when a later check rejects
AdmitHttpRefunds(token, model, tracker) ==
    IF Authenticate(users, token) = None
    THEN [step |-> "authenticate", tracker |-> tracker, provider |-> None]
    ELSE LET rl == CheckRateLimit(users, tracker, token, now) IN
         IF ~ rl.allowed
         THEN [step |-> "rate_limit", tracker |-> rl.tracker, provider |-> None]
         ELSE IF ~ IsAuthorized(users, token, model)
         THEN [step |-> "authorize", tracker |-> tracker, provider |-> None]
         ELSE IF GetProviderForModel(model_providers, model) = None
         THEN [step |-> "provider", tracker |-> tracker, provider |-> None]
         ELSE [step |-> "ok", tracker |-> rl.tracker,
               provider |-> GetProviderForModel(model_providers, model)]

\* the checks of chat_completions between the token and the provider: the
\* step that failed ("ok" when none did), the tracker left, the provider
AdmitHttp(token, model, tracker) ==
    IF Authenticate(users, token) = None
    THEN [step |-> "authenticate", tracker |-> tracker, provider |-> None]
    ELSE LET rl == CheckRateLimit(users, tracker, token, now) IN
         IF ~ rl.allowed
         THEN [step |-> "rate_limit", tracker |-> rl.tracker, provider |-> None]
         ELSE IF ~ IsAuthorized(users, token, model)
         THEN [step |-> "authorize", tracker |-> rl.tracker, provider |-> None]
         ELSE IF GetProviderForModel(model_providers, model) = None
         THEN [step |-> "provider", tracker |-> rl.tracker, provider |-> None]
         ELSE [step |-> "ok", tracker |-> rl.tracker,
               provider |-> GetProviderForModel(model_providers, model)]

\* the HTTP status of each failed step
HttpStatus(step) ==
    CASE step = "authenticate" -> "401"
      [] step = "rate_limit" -> "429"
      [] step = "authorize" -> "403"
      [] step = "provider" -> "404"
      [] step = "ok" -> "200"

\* a faulty variant of the route that takes the token of a header of any scheme
HttpChatCompletionsAnyScheme(authorization, model) ==
    IF authorization = NoHeader
    THEN /\ last' = Answer("http", "chat", None, Some(model), "401", FALSE)
         /\ UNCHANGED << users, rate_limit_tracker, model_providers, model_configs,
                         now, ticks, authenticated_user, tcp_open,
                         denied_since, denied_ever >>
    ELSE LET token == The(authorization).rest
             adm == AdmitHttp(token, model, rate_limit_tracker)
         IN /\ rate_limit_tracker' = adm.tracker
            /\ last' = Answer("http", "chat", Some(token), Some(model),
                              HttpStatus(adm.step), adm.step = "ok")
            /\ UNCHANGED << users, model_providers, model_configs, now, ticks,
                            authenticated_user, tcp_open, denied_since, denied_ever >>

\* POST /v1/chat/completions: _extract_token, then chat_completions up to
\* the call of the provider
HttpChatCompletions(authorization, model) ==
    IF authorization = NoHeader \/ The(authorization).prefix # "Bearer "
    THEN /\ last' = Answer("http", "chat", None, Some(model), "401", FALSE)
         /\ UNCHANGED << users, rate_limit_tracker, model_providers, model_configs,
                         now, ticks, authenticated_user, tcp_open,
                         denied_since, denied_ever >>
    ELSE LET token == The(authorization).rest
             adm == AdmitHttp(token, model, rate_limit_tracker)
         IN /\ rate_limit_tracker' = adm.tracker
            /\ last' = Answer("http", "chat", Some(token), Some(model),
                              HttpStatus(adm.step), adm.step = "ok")
            /\ UNCHANGED << users, model_providers, model_configs, now, ticks,
                            authenticated_user, tcp_open, denied_since, denied_ever >>

\* ------------------------------------------------------------- WebSocket

\* dict.get(key): the value, None when the key is absent (a JSON null is the
\* value None)
Get(d, key) == IF key \in DOMAIN d THEN d[key] ELSE None

\* `not x` for a value that is None or a string
Falsy(opt) == opt = None \/ opt = Some("")

\* the "token" part and the "model" part of a JSON object a client may send:
\* the key absent, null, or a string (values of other JSON types, and
\* payloads that are not objects, are not among the inputs)
TokenFields ==
    { << >> } \cup { "token" :> v : v \in { None } \cup { Some(t) : t \in Tokens } }

ModelFields ==
    { << >> } \cup { "model" :> v : v \in { None } \cup { Some(m) : m \in Models } }

\* the messages a WebSocket client may send (a null is read like an absent key)
WsMessages ==
    { t @@ m : t \in { f \in TokenFields : Get(f, "token") # None \/ f = << >> },
               m \in { f \in ModelFields : Get(f, "model") # None \/ f = << >> } }

\* one turn of websocket_chat_completions' loop, from receive_json to the
\* call of the provider: the error type sent ("ok" when none), the tracker left
AdmitWs(data, tracker) ==
    LET token == Get(data, "token")
        model == Get(data, "model")
    IN IF Falsy(token)
       THEN [step |-> "authentication_error", tracker |-> tracker]
       ELSE IF Authenticate(users, The(token)) = None
       THEN [step |-> "authentication_error", tracker |-> tracker]
       ELSE LET rl == CheckRateLimit(users, tracker, The(token), now) IN
            IF ~ rl.allowed
            THEN [step |-> "rate_limit_error", tracker |-> rl.tracker]
            ELSE IF Falsy(model)
            THEN [step |-> "validation_error", tracker |-> rl.tracker]
            ELSE IF ~ IsAuthorized(users, The(token), The(model))
            THEN [step |-> "authorization_error", tracker |-> rl.tracker]
            ELSE IF GetProviderForModel(model_providers, The(model)) = None
            THEN [step |-> "model_error", tracker |-> rl.tracker]
            ELSE [step |-> "ok", tracker |-> rl.tracker]

WsMessage(data) ==
    LET adm == AdmitWs(data, rate_limit_tracker) IN
    /\ rate_limit_tracker' = adm.tracker
    /\ last' = Answer("ws", "chat", Get(data, "token"), Get(data, "model"),
                      adm.step, adm.step = "ok")
    /\ UNCHANGED << users, model_providers, model_configs, now, ticks,
                    authenticated_user, tcp_open, denied_since, denied_ever >>

\* ------------------------------------------------------------------- TCP

\* asyncio.start_server calls _handle_client for a new connection
TcpAccept ==
    /\ ~ tcp_open
    /\ tcp_open' = TRUE
    /\ authenticated_user' = None
    /\ UNCHANGED << users, rate_limit_tracker, model_providers, model_configs,
                    now, ticks, last, denied_since, denied_ever >>

\* the client closes: readexactly raises, the loop breaks, the writer is closed
TcpDisconnect ==
    /\ tcp_open
    /\ tcp_open' = FALSE
    /\ authenticated_user' = None
    /\ UNCHANGED << users, rate_limit_tracker, model_providers, model_configs,
                    now, ticks, last, denied_since, denied_ever >>

\* _handle_auth: the ARSP frame it writes
HandleAuth(payload) ==
    LET token == Get(payload, "token") IN
    IF Falsy(token) THEN "ARSP:false"
    ELSE IF Authenticate(users, The(token)) # None THEN "ARSP:true"
    ELSE "ARSP:false"

\* a faulty variant of the rebinding: the first identity bound stays
RebindKeepsFirst(payload, current) ==
    IF current # None THEN current
    ELSE IF "token" \in DOMAIN payload
    THEN IF payload["token"] = None THEN None
         ELSE Authenticate(users, The(payload["token"]))
    ELSE current

\* _handle_client after _handle_auth returned: the session's identity is
\* looked up again when the payload has the key "token" (users.get(None) is
\* None)
Rebind(payload, current) ==
    IF "token" \in DOMAIN payload
    THEN IF payload["token"] = None THEN None
         ELSE Authenticate(users, The(payload["token"]))
    ELSE current

\* an AUTH frame
TcpAuth(payload) ==
    /\ tcp_open
    /\ authenticated_user' = Rebind(payload, authenticated_user)
    /\ last' = TcpAnswer("AUTH", Get(payload, "token"), None,
                         IF authenticated_user = None THEN None
                         ELSE Some(The(authenticated_user).token),
                         HandleAuth(payload), FALSE)
    /\ UNCHANGED << users, rate_limit_tracker, model_providers, model_configs,
                    now, ticks, tcp_open, denied_since, denied_ever >>

\* a faulty variant of the completion handler that skips the authorization check
HandleCompletionNoAuthz(payload, user) ==
    LET model == Get(payload, "model") IN
    IF Falsy(model) THEN "ERRO:MISSING_MODEL"
    ELSE IF GetProviderForModel(model_providers, The(model)) = None
    THEN "ERRO:MODEL_NOT_FOUND"
    ELSE "CHNK"

\* a faulty variant of the completion handler that looks up the provider before
\* it asks whether the user may use the model
HandleCompletionRoutesFirst(payload, user) ==
    LET model == Get(payload, "model") IN
    IF Falsy(model) THEN "ERRO:MISSING_MODEL"
    ELSE IF GetProviderForModel(model_providers, The(model)) = None
    THEN "ERRO:MODEL_NOT_FOUND"
    ELSE IF ~ IsAuthorized(users, user.token, The(model))
    THEN "ERRO:UNAUTHORIZED_MODEL"
    ELSE "CHNK"

\* _handle_completion up to the call of the provider: the ERRO frame it
\* writes, or "CHNK" when the relay starts
HandleCompletion(payload, user) ==
    LET model == Get(payload, "model") IN
    IF Falsy(model) THEN "ERRO:MISSING_MODEL"
    ELSE IF ~ IsAuthorized(users, user.token, The(model))
    THEN "ERRO:UNAUTHORIZED_MODEL"
    ELSE IF GetProviderForModel(model_providers, The(model)) = None
    THEN "ERRO:MODEL_NOT_FOUND"
    ELSE "CHNK"

\* a COMP frame
TcpComp(payload) ==
    /\ tcp_open
    /\ LET outcome ==
               IF authenticated_user = None THEN "ERRO:NOT_AUTHENTICATED"
               ELSE HandleCompletion(payload, The(authenticated_user))
       IN last' = TcpAnswer("COMP", None, Get(payload, "model"),
                            IF authenticated_user = None THEN None
                            ELSE Some(The(authenticated_user).token),
                            outcome, outcome = "CHNK")
    /\ UNCHANGED << users, rate_limit_tracker, model_providers, model_configs,
                    now, ticks, authenticated_user, tcp_open,
                    denied_since, denied_ever >>

\* the type codes a client may send besides AUTH and COMP
OtherTypes == { "PING", "CHNK", "" }

\* a frame of any other type
TcpOther(msg_type) ==
    /\ tcp_open
    /\ last' = TcpAnswer(msg_type, None, None,
                         IF authenticated_user = None THEN None
                         ELSE Some(The(authenticated_user).token),
                         "ERRO:UNKNOWN_MESSAGE_TYPE", FALSE)
    /\ UNCHANGED << users, rate_limit_tracker, model_providers, model_configs,
                    now, ticks, authenticated_user, tcp_open,
                    denied_since, denied_ever >>

\* --------------------------------------- direct calls of the AuthManager

\* a call of check_rate_limit(token)
CheckRateLimitCall(token) ==
    LET rl == CheckRateLimit(users, rate_limit_tracker, token, now) IN
    /\ rate_limit_tracker' = rl.tracker
    /\ last' = Answer("direct", "check_rate_limit", Some(token), None,
                      IF rl.allowed THEN "True" ELSE "False", FALSE)
    /\ UNCHANGED << users, model_providers, model_configs, now, ticks,
                    authenticated_user, tcp_open, denied_since, denied_ever >>

\* a call of check_rate_limit(token), watched: denied_since and denied_ever
\* record when the token's checks were denied
CheckRateLimitWatched(token) ==
    LET rl == CheckRateLimit(users, rate_limit_tracker, token, now)
        known == token \in DOMAIN users
    IN /\ rate_limit_tracker' = rl.tracker
       /\ last' = Answer("direct", "check_rate_limit", Some(token), None,
                         IF rl.allowed THEN "True" ELSE "False", FALSE)
       /\ denied_since' =
              IF ~ known THEN denied_since
              ELSE IF rl.allowed THEN [denied_since EXCEPT ![token] = None]
              ELSE IF denied_since[token] = None
              THEN [denied_since EXCEPT ![token] = Some(now)]
              ELSE denied_since
       /\ denied_ever' =
              IF known /\ ~ rl.allowed /\ denied_ever[token] = None
              THEN [denied_ever EXCEPT ![token] = Some(now)]
              ELSE denied_ever
       /\ UNCHANGED << users, model_providers, model_configs, now, ticks,
                       authenticated_user, tcp_open >>

\* a call of check_rate_limit(token), logged: granted keeps the time of every
\* allowed check of a configured token, also after the window dropped it
CheckRateLimitLogged(token) ==
    /\ CheckRateLimitCall(token)
    /\ granted' = IF token \in DOMAIN users /\ last'.outcome = "True"
                  THEN [granted EXCEPT ![token] = Append(@, now)]
                  ELSE granted
    /\ UNCHANGED << sessions, codec, conn, bridge, relay >>

\* a call of is_authorized(token, model_id)
IsAuthorizedCall(token, model_id) ==
    /\ last' = Answer("direct", "is_authorized", Some(token), Some(model_id),
                      IF IsAuthorized(users, token, model_id)
                      THEN "True" ELSE "False", FALSE)
    /\ UNCHANGED << users, rate_limit_tracker, model_providers, model_configs,
                    now, ticks, authenticated_user, tcp_open,
                    denied_since, denied_ever >>

\* get_user_info: the dict of the user's name, permissions and rate_limit,
\* or None
GetUserInfo(table, token) ==
    LET user == Authenticate(table, token) IN
    IF user = None THEN None
    ELSE Some([name |-> The(user).name, permissions |-> The(user).permissions,
               rate_limit |-> The(user).rate_limit])

\* a call of authenticate(token)
AuthenticateCall(token) ==
    /\ last' = Answer("direct", "authenticate", Some(token), None,
                      Authenticate(users, token), FALSE)
    /\ UNCHANGED << users, rate_limit_tracker, model_providers, model_configs,
                    now, ticks, authenticated_user, tcp_open,
                    denied_since, denied_ever >>

\* a call of get_user_info(token)
GetUserInfoCall(token) ==
    /\ last' = Answer("direct", "get_user_info", Some(token), None,
                      GetUserInfo(users, token), FALSE)
    /\ UNCHANGED << users, rate_limit_tracker, model_providers, model_configs,
                    now, ticks, authenticated_user, tcp_open,
                    denied_since, denied_ever >>

\* ------------------------------------------- TCP sessions, frame by frame

\* the fragments a provider may yield, and how many it may yield for one
\* request
Fragments == { "", "Hello", " world" }

MaxFragments == 2

\* create_auth_response, create_error_response, create_completion_chunk: the
\* frame each packs (the human-readable message texts are left out)
CreateAuthResponse(success) ==
    [type |-> "ARSP", payload |-> [success |-> success]]

CreateErrorResponse(error_code) ==
    [type |-> "ERRO", payload |-> [code |-> error_code]]

CreateCompletionChunk(content, is_final) ==
    [type |-> "CHNK", payload |-> [content |-> content, final |-> is_final]]

\* a faulty variant of the loop's guard: the next frame is read while a relay runs
ReadingWhileRelaying(session) == session.state \in { "reading", "relaying" }

\* the coroutine is suspended in unpack_message_from_stream: only there does
\* it take a frame from the reader
Reading(session) == session.state = "reading"

\* a faulty variant of the COMP branch that looks at the payload before the identity
CompBranchChecksModelFirst(payload, authenticated) ==
    IF Falsy(Get(payload, "model")) THEN "ERRO:MISSING_MODEL"
    ELSE IF authenticated = None THEN "ERRO:NOT_AUTHENTICATED"
    ELSE HandleCompletion(payload, The(authenticated))

\* the COMP branch of _handle_client: the ERRO code it answers with, or
\* "CHNK" when _handle_completion starts the relay
CompBranch(payload, authenticated) ==
    IF authenticated = None THEN "ERRO:NOT_AUTHENTICATED"
    ELSE HandleCompletion(payload, The(authenticated))

\* the code of an "ERRO:<code>" answer
ErrorCode(outcome) ==
    CASE outcome = "ERRO:NOT_AUTHENTICATED" -> "NOT_AUTHENTICATED"
      [] outcome = "ERRO:MISSING_MODEL" -> "MISSING_MODEL"
      [] outcome = "ERRO:UNAUTHORIZED_MODEL" -> "UNAUTHORIZED_MODEL"
      [] outcome = "ERRO:MODEL_NOT_FOUND" -> "MODEL_NOT_FOUND"
      [] outcome = "ERRO:UNKNOWN_MESSAGE_TYPE" -> "UNKNOWN_MESSAGE_TYPE"

\* a faulty variant of the relay loop that forwards empty fragments too
RelayChunkForwardsEmpty(written, chunk) ==
    Append(written, CreateCompletionChunk(chunk, FALSE))

\* the body of the async for: `if chunk:` write CHNK{chunk, final:false}
RelayChunk(written, chunk) ==
    IF chunk # "" THEN Append(written, CreateCompletionChunk(chunk, FALSE))
    ELSE written

\* a faulty variant of the relay's end that closes the stream twice
RelayEndTwice(written) ==
    Append(Append(written, CreateCompletionChunk("", TRUE)),
           CreateCompletionChunk("", TRUE))

\* after the async for: write CHNK{"", final:true}
RelayEnd(written) == Append(written, CreateCompletionChunk("", TRUE))

\* a faulty variant of the except branch that still sends the final chunk
RelayRaisedThenFinal(written) ==
    Append(Append(written, CreateErrorResponse("GENERATION_ERROR")),
           CreateCompletionChunk("", TRUE))

\* the except branch around the async for: write ERRO{GENERATION_ERROR}
RelayRaised(written) == Append(written, CreateErrorResponse("GENERATION_ERROR"))

\* the other variables stand still in a step of a session
SessionFrame == UNCHANGED << gateway, codec, conn, bridge, watch >>

\* asyncio.start_server starts _handle_client for a new connection
SessionAccept(c) ==
    /\ sessions[c].state = "listening"
    /\ sessions' = [sessions EXCEPT ![c] = [NotAccepted EXCEPT !.state = "reading"]]
    /\ SessionFrame

\* the client closes while the coroutine waits for a frame: readexactly
\* raises, the loop is left and the finally closes the writer
SessionEof(c) ==
    /\ sessions[c].state = "reading"
    /\ sessions' = [sessions EXCEPT ![c].state = "closed"]
    /\ SessionFrame

\* the exceptions a drain may raise once the client is gone
WriteErrors == { "ConnectionResetError", "BrokenPipeError", "TimeoutError" }

\* the classes an exception of the transports is an instance of
Bases(exc) ==
    CASE exc = "WebSocketDisconnect" -> { "WebSocketDisconnect", "Exception" }
      [] exc = "RuntimeError" -> { "RuntimeError", "Exception" }
      [] exc = "ConnectionResetError" ->
             { "ConnectionResetError", "ConnectionError", "OSError", "Exception" }
      [] exc = "BrokenPipeError" ->
             { "BrokenPipeError", "ConnectionError", "OSError", "Exception" }
      [] exc = "TimeoutError" -> { "TimeoutError", "OSError", "Exception" }
      [] exc = "TypeError" -> { "TypeError", "Exception" }
      [] exc = "AttributeError" -> { "AttributeError", "Exception" }

\* a faulty variant of _handle_client's handler that catches lost connections only
HandleClientLeavesOnConnectionError(exc) ==
    IF "ConnectionError" \in Bases(exc) THEN "closed" ELSE "crashed"

\* an exception leaves _handle_client's loop: `except Exception` logs it and
\* the finally closes the writer; "crashed" when it leaves the coroutine
HandleClientLeaves(exc) ==
    IF "Exception" \in Bases(exc) THEN "closed" ELSE "crashed"

\* the connection is lost during a relay: drain raises in the async for, in
\* both except branches of _handle_completion and out of _handle_client's
\* loop; nothing more reaches the client and the finally closes the writer
SessionReset(c) ==
    /\ sessions[c].state = "relaying"
    /\ \E exc \in WriteErrors :
           sessions' = [sessions EXCEPT ![c].state = HandleClientLeaves(exc)]
    /\ SessionFrame

\* an AUTH frame is read: _handle_auth answers, then the identity is rebound
SessionAuth(c, payload) ==
    /\ Reading(sessions[c])
    /\ sessions' = [sessions EXCEPT ![c] =
           [state |-> "reading",
            user |-> Rebind(payload, sessions[c].user),
            frame |-> Some([type |-> "AUTH", payload |-> payload]),
            written |-> << CreateAuthResponse(HandleAuth(payload) = "ARSP:true") >>,
            yielded |-> << >>,
            provider |-> "idle"]]
    /\ SessionFrame

\* a COMP frame is read: answered with one ERRO, or the relay starts with
\* the call of provider.stream_completion
SessionComp(c, payload) ==
    /\ Reading(sessions[c])
    /\ LET outcome == CompBranch(payload, sessions[c].user) IN
       sessions' = [sessions EXCEPT ![c] =
           [state |-> IF outcome = "CHNK" THEN "relaying" ELSE "reading",
            user |-> sessions[c].user,
            frame |-> Some([type |-> "COMP", payload |-> payload]),
            written |-> IF outcome = "CHNK" THEN << >>
                        ELSE << CreateErrorResponse(ErrorCode(outcome)) >>,
            yielded |-> << >>,
            provider |-> IF outcome = "CHNK" THEN "streaming" ELSE "idle"]]
    /\ SessionFrame

\* a frame of any other type is read
SessionOther(c, msg_type) ==
    /\ Reading(sessions[c])
    /\ sessions' = [sessions EXCEPT ![c] =
           [state |-> "reading",
            user |-> sessions[c].user,
            frame |-> Some([type |-> msg_type, payload |-> << >>]),
            written |-> << CreateErrorResponse("UNKNOWN_MESSAGE_TYPE") >>,
            yielded |-> << >>,
            provider |-> "idle"]]
    /\ SessionFrame

\* payloads json.loads accepts that are no object with string values: a
\* list, a number, and an object whose token is a list
OddPayloads == { [json |-> "[]"], [json |-> "5"], [json |-> "{token: []}"] }

\* what _handle_auth's `try` raises on the payload: payload.get is missing on
\* a list and on a number, users.get raises on a key that cannot be hashed
HandleAuthRaises(payload) ==
    IF payload.json \in { "[]", "5" } THEN "AttributeError" ELSE "TypeError"

\* what _handle_client raises after _handle_auth returned, None when it
\* goes on: `"token" in payload` is False on the list and raises on the
\* number, and authenticate raises again on the token that is a list
RebindRaises(payload) ==
    IF payload.json = "[]" THEN None ELSE Some("TypeError")

\* an AUTH frame with such a payload is read: `except Exception` of
\* _handle_auth writes ERRO{AUTH_ERROR}, then the loop goes on or is left
SessionAuthOdd(c, payload) ==
    /\ Reading(sessions[c])
    /\ "Exception" \in Bases(HandleAuthRaises(payload))
    /\ sessions' = [sessions EXCEPT ![c] =
           [state |-> IF RebindRaises(payload) = None THEN "reading"
                      ELSE HandleClientLeaves(The(RebindRaises(payload))),
            user |-> sessions[c].user,
            frame |-> Some([type |-> "AUTH", payload |-> payload]),
            written |-> << CreateErrorResponse("AUTH_ERROR") >>,
            yielded |-> << >>,
            provider |-> "idle"]]
    /\ SessionFrame

\* a COMP frame whose payload is a list or a number is read: unbound
\* sessions are refused before the payload is looked at, on the others
\* payload.get raises in _handle_completion's outer try, which writes
\* ERRO{INTERNAL_ERROR}
SessionCompOdd(c, payload) ==
    /\ Reading(sessions[c])
    /\ HandleAuthRaises(payload) = "AttributeError"
    /\ sessions' = [sessions EXCEPT ![c] =
           [state |-> "reading",
            user |-> sessions[c].user,
            frame |-> Some([type |-> "COMP", payload |-> payload]),
            written |-> << CreateErrorResponse(
                               IF sessions[c].user = None THEN "NOT_AUTHENTICATED"
                               ELSE "INTERNAL_ERROR") >>,
            yielded |-> << >>,
            provider |-> "idle"]]
    /\ SessionFrame

\* the provider yields its next fragment
ProviderYields(c, chunk) ==
    /\ sessions[c].state = "relaying"
    /\ Len(sessions[c].yielded) < MaxFragments
    /\ sessions' = [sessions EXCEPT
           ![c].yielded = Append(@, chunk),
           ![c].written = RelayChunk(@, chunk)]
    /\ SessionFrame

\* the provider's stream ends
ProviderEnds(c) ==
    /\ sessions[c].state = "relaying"
    /\ sessions' = [sessions EXCEPT
           ![c].written = RelayEnd(@),
           ![c].provider = "ended",
           ![c].state = "reading"]
    /\ SessionFrame

\* the provider raises, before its first fragment or after some
ProviderRaises(c) ==
    /\ sessions[c].state = "relaying"
    /\ sessions' = [sessions EXCEPT
           ![c].written = RelayRaised(@),
           ![c].provider = "raised",
           ![c].state = "reading"]
    /\ SessionFrame

\* ------------------------------------------------------ str and bytes

\* A str or a bytes value is a sequence of runs << code, times >>: the
\* character (byte) with that code point (value), repeated.  No two
\* neighbouring runs have the same code, so equal values have equal
\* sequences, and a payload of ten million characters is a handful of runs.

\* the printable ASCII characters, from code 32 on (the double quote, the
\* backslash and the backtick by their names)
Ascii ==
    << " ", "!", "quote", "#", "$", "%", "&", "'", "(", ")", "*", "+", ",", "-",
       ".", "/", "0", "1", "2", "3", "4", "5", "6", "7", "8", "9", ":", ";",
       "<", "=", ">", "?", "@", "A", "B", "C", "D", "E", "F", "G", "H", "I",
       "J", "K", "L", "M", "N", "O", "P", "Q", "R", "S", "T", "U", "V", "W",
       "X", "Y", "Z", "[", "backslash", "]", "^", "_", "backtick", "a", "b", "c", "d", "e",
       "f", "g", "h", "i", "j", "k", "l", "m", "n", "o", "p", "q", "r", "s",
       "t", "u", "v", "w", "x", "y", "z", "{", "|", "}", "~" >>

\* ord(ch) of a printable ASCII character
Ord(ch) == 31 + (CHOOSE i \in 1..Len(Ascii) : Ascii[i] = ch)

\* code repeated times
Run(code, times) == IF times <= 0 THEN << >> ELSE << << code, times >> >>

\* a + b
Cat(a, b) ==
    IF a = << >> THEN b
    ELSE IF b = << >> THEN a
    ELSE IF a[Len(a)][1] = b[1][1]
    THEN SubSeq(a, 1, Len(a) - 1)
             \o << << b[1][1], a[Len(a)][2] + b[1][2] >> >> \o Tail(b)
    ELSE a \o b

\* the value with the given codes, one after the other
RECURSIVE Codes(_)
Codes(codes) ==
    IF codes = << >> THEN << >>
    ELSE Cat(Run(Head(codes), 1), Codes(Tail(codes)))

\* the str written with the given printable ASCII characters
Text(chars) == Codes([i \in 1..Len(chars) |-> Ord(chars[i])])

\* len(s)
RECURSIVE Size(_)
Size(s) == IF s = << >> THEN 0 ELSE s[1][2] + Size(Tail(s))

\* s[:n]
RECURSIVE Take(_, _)
Take(s, n) ==
    IF n <= 0 \/ s = << >> THEN << >>
    ELSE IF s[1][2] <= n THEN << s[1] >> \o Take(Tail(s), n - s[1][2])
    ELSE << << s[1][1], n >> >>

\* s[n:]
RECURSIVE Drop(_, _)
Drop(s, n) ==
    IF n <= 0 \/ s = << >> THEN s
    ELSE IF s[1][2] <= n THEN Drop(Tail(s), n - s[1][2])
    ELSE << << s[1][1], s[1][2] - n >> >> \o Tail(s)

\* ord(s[i - 1]) for 1 <= i <= len(s)
At(s, i) == Drop(s, i - 1)[1][1]

\* the codes repeated times, as a value
RECURSIVE Repeat(_, _)
Repeat(codes, times) ==
    IF times <= 0 THEN << >> ELSE Cat(Codes(codes), Repeat(codes, times - 1))

\* the characters str.rstrip() removes from a str decoded from ASCII
Whitespace == { 9, 10, 11, 12, 13, 28, 29, 30, 31, 32 }

\* s.rstrip()
RECURSIVE RStrip(_)
RStrip(s) ==
    IF s = << >> THEN s
    ELSE IF s[Len(s)][1] \in Whitespace THEN RStrip(SubSeq(s, 1, Len(s) - 1))
    ELSE s

\* s.encode('utf-8') of one character: its bytes, << >> for a surrogate
\* (UnicodeEncodeError)
Utf8Bytes(code) ==
    IF code < 128 THEN << code >>
    ELSE IF code < 2048 THEN << 192 + (code \div 64), 128 + (code % 64) >>
    ELSE IF code >= 55296 /\ code <= 57343 THEN << >>
    ELSE IF code < 65536
    THEN << 224 + (code \div 4096), 128 + ((code \div 64) % 64), 128 + (code % 64) >>
    ELSE << 240 + (code \div 262144), 128 + ((code \div 4096) % 64),
            128 + ((code \div 64) % 64), 128 + (code % 64) >>

\* s.encode('utf-8'): the bytes, or the exception raised
RECURSIVE Utf8Encode(_)
Utf8Encode(s) ==
    IF s = << >> THEN [raised |-> "none", bytes |-> << >>]
    ELSE LET head == Utf8Bytes(s[1][1])
             rest == Utf8Encode(Tail(s))
         IN IF head = << >> \/ rest.raised # "none"
            THEN [raised |-> "UnicodeEncodeError", bytes |-> << >>]
            ELSE [raised |-> "none",
                  bytes |-> Cat(IF Len(head) = 1 THEN Run(head[1], s[1][2])
                                ELSE Repeat(head, s[1][2]),
                                rest.bytes)]

\* a continuation byte of UTF-8
Continuation(b) == b >= 128 /\ b <= 191

\* the first character of b.decode('utf-8'): how many bytes it takes and its
\* code point, or length 0 where the decoder raises UnicodeDecodeError
Utf8First(b) ==
    LET n == Size(b)
        b1 == At(b, 1)
    IN IF b1 < 128 THEN [length |-> 1, code |-> b1]
       ELSE IF b1 >= 194 /\ b1 <= 223 /\ n >= 2 /\ Continuation(At(b, 2))
       THEN [length |-> 2, code |-> (b1 - 192) * 64 + (At(b, 2) - 128)]
       ELSE IF /\ b1 >= 224 /\ b1 <= 239 /\ n >= 3
               /\ Continuation(At(b, 2)) /\ Continuation(At(b, 3))
               /\ (b1 = 224 => At(b, 2) >= 160)
               /\ (b1 = 237 => At(b, 2) <= 159)
       THEN [length |-> 3,
             code |-> (b1 - 224) * 4096 + (At(b, 2) - 128) * 64 + (At(b, 3) - 128)]
       ELSE IF /\ b1 >= 240 /\ b1 <= 244 /\ n >= 4
               /\ Continuation(At(b, 2)) /\ Continuation(At(b, 3))
               /\ Continuation(At(b, 4))
               /\ (b1 = 240 => At(b, 2) >= 144)
               /\ (b1 = 244 => At(b, 2) <= 143)
       THEN [length |-> 4,
             code |-> (b1 - 240) * 262144 + (At(b, 2) - 128) * 4096
                          + (At(b, 3) - 128) * 64 + (At(b, 4) - 128)]
       ELSE [length |-> 0, code |-> 0]

\* b.decode('utf-8'): the str, or the exception raised
RECURSIVE Utf8Decode(_)
Utf8Decode(b) ==
    IF b = << >> THEN [raised |-> "none", text |-> << >>]
    ELSE IF b[1][1] < 128
    THEN LET rest == Utf8Decode(Tail(b)) IN
         IF rest.raised # "none" THEN rest
         ELSE [raised |-> "none", text |-> Cat(<< b[1] >>, rest.text)]
    ELSE LET first == Utf8First(b) IN
         IF first.length = 0
         THEN [raised |-> "UnicodeDecodeError", text |-> << >>]
         ELSE LET rest == Utf8Decode(Drop(b, first.length)) IN
              IF rest.raised # "none" THEN rest
              ELSE [raised |-> "none", text |-> Cat(Run(first.code, 1), rest.text)]

\* ----------------------------------------------------------------- JSON

\* A JSON value is [str |-> s], [num |-> n] (an integer), [lit |-> "null"],
\* [lit |-> "true"], [lit |-> "false"], [arr |-> << values >>] or
\* [obj |-> << << key, value >>, ... >>] with its keys in insertion order.

\* the decimal digits of n >= 0
RECURSIVE Decimal(_)
Decimal(n) ==
    IF n < 10 THEN Run(48 + n, 1)
    ELSE Cat(Decimal(n \div 10), Run(48 + (n % 10), 1))

\* the lower-case hexadecimal digit of d
HexDigit(d) == IF d < 10 THEN 48 + d ELSE 87 + d

\* json.encoder's ESCAPE_DCT: what one character of a string is written as
\* with ensure_ascii=False
Escape(code) ==
    CASE code = 34 -> << 92, 34 >>
      [] code = 92 -> << 92, 92 >>
      [] code = 10 -> << 92, 110 >>
      [] code = 13 -> << 92, 114 >>
      [] code = 9 -> << 92, 116 >>
      [] code = 8 -> << 92, 98 >>
      [] code = 12 -> << 92, 102 >>
      [] code < 32 /\ code \notin { 8, 9, 10, 12, 13 } ->
             << 92, 117, 48, 48, HexDigit(code \div 16), HexDigit(code % 16) >>
      [] OTHER -> << code >>

\* the characters of a str between the quotes
RECURSIVE EscapeString(_)
EscapeString(s) ==
    IF s = << >> THEN << >>
    ELSE Cat(IF Escape(s[1][1]) = << s[1][1] >> THEN << s[1] >>
             ELSE Repeat(Escape(s[1][1]), s[1][2]),
             EscapeString(Tail(s)))

\* json.dumps(value, ensure_ascii=False): items joined by ", ", a key and
\* its value by ": "
RECURSIVE JsonDumps(_), DumpItems(_, _)
JsonDumps(value) ==
    IF "str" \in DOMAIN value
    THEN Cat(Run(34, 1), Cat(EscapeString(value.str), Run(34, 1)))
    ELSE IF "num" \in DOMAIN value
    THEN IF value.num < 0 THEN Cat(Run(45, 1), Decimal(0 - value.num))
         ELSE Decimal(value.num)
    ELSE IF "lit" \in DOMAIN value
    THEN CASE value.lit = "null" -> Text(<< "n", "u", "l", "l" >>)
           [] value.lit = "true" -> Text(<< "t", "r", "u", "e" >>)
           [] value.lit = "false" -> Text(<< "f", "a", "l", "s", "e" >>)
    ELSE IF "arr" \in DOMAIN value
    THEN Cat(Run(91, 1), Cat(DumpItems(value.arr, FALSE), Run(93, 1)))
    ELSE Cat(Run(123, 1), Cat(DumpItems(value.obj, TRUE), Run(125, 1)))

DumpItems(items, keyed) ==
    IF items = << >> THEN << >>
    ELSE LET item == IF keyed
                     THEN Cat(JsonDumps([str |-> items[1][1]]),
                              Cat(Text(<< ":", " " >>), JsonDumps(items[1][2])))
                     ELSE JsonDumps(items[1])
         IN IF Len(items) = 1 THEN item
            ELSE Cat(item, Cat(Text(<< ",", " " >>), DumpItems(Tail(items), keyed)))

\* a parse that failed, and one that produced a value and left the rest
Failed == [ok |-> FALSE, value |-> [lit |-> "null"], rest |-> << >>]

Parsed(value, rest) == [ok |-> TRUE, value |-> value, rest |-> rest]

\* the str without the whitespace json skips at its start
RECURSIVE SkipWs(_)
SkipWs(s) ==
    IF s # << >> /\ s[1][1] \in { 32, 9, 10, 13 } THEN SkipWs(Tail(s)) ELSE s

\* the value of a hexadecimal digit, -1 for any other character
HexValue(code) ==
    IF code >= 48 /\ code <= 57 THEN code - 48
    ELSE IF code >= 97 /\ code <= 102 THEN code - 87
    ELSE IF code >= 65 /\ code <= 70 THEN code - 55
    ELSE 0 - 1

\* the character a backslash and the next character stand for, -1 when the
\* pair is no escape of JSON (\u is read apart)
Unescape(code) ==
    CASE code = 34 -> 34 [] code = 92 -> 92 [] code = 47 -> 47
      [] code = 98 -> 8 [] code = 102 -> 12 [] code = 110 -> 10
      [] code = 114 -> 13 [] code = 116 -> 9
      [] OTHER -> 0 - 1

\* json's scanstring after the opening quote (strict: a control character in
\* a string is an error; \u escapes of surrogate pairs are not combined)
RECURSIVE ScanString(_, _)
ScanString(s, acc) ==
    IF s = << >> THEN Failed
    ELSE IF s[1][1] = 34 THEN Parsed([str |-> acc], Drop(s, 1))
    ELSE IF s[1][1] < 32 THEN Failed
    ELSE IF s[1][1] # 92 THEN ScanString(Tail(s), Cat(acc, << s[1] >>))
    ELSE IF Size(s) < 2 THEN Failed
    ELSE IF At(s, 2) = 117
    THEN IF Size(s) < 6
            \/ \E i \in 3..6 : HexValue(At(s, i)) < 0
         THEN Failed
         ELSE ScanString(Drop(s, 6),
                  Cat(acc, Run(HexValue(At(s, 3)) * 4096 + HexValue(At(s, 4)) * 256
                                   + HexValue(At(s, 5)) * 16 + HexValue(At(s, 6)), 1)))
    ELSE IF Unescape(At(s, 2)) < 0 THEN Failed
    ELSE ScanString(Drop(s, 2), Cat(acc, Run(Unescape(At(s, 2)), 1)))

\* the digits at the start of s, as a number, and how many they are
RECURSIVE ScanDigits(_, _, _)
ScanDigits(s, acc, count) ==
    IF s # << >> /\ s[1][1] >= 48 /\ s[1][1] <= 57 /\ count < 9
    THEN ScanDigits(Drop(s, 1), 10 * acc + (s[1][1] - 48), count + 1)
    ELSE [value |-> acc, count |-> count, rest |-> s]

\* an integer: -? (0 | [1-9][0-9]*)  (fractions and exponents are not read)
ScanNumber(s) ==
    LET negative == s # << >> /\ s[1][1] = 45
        body == IF negative THEN Drop(s, 1) ELSE s
        digits == ScanDigits(body, 0, 0)
    IN IF body = << >> \/ digits.count = 0 THEN Failed
       ELSE IF body[1][1] = 48
       THEN Parsed([num |-> 0], Drop(body, 1))
       ELSE Parsed([num |-> IF negative THEN 0 - digits.value ELSE digits.value],
                   digits.rest)

\* dict[key] = value: the value of a key that is there is replaced where it
\* stands
DictSet(members, key, value) ==
    IF \E i \in 1..Len(members) : members[i][1] = key
    THEN [i \in 1..Len(members) |->
            IF members[i][1] = key THEN << key, value >> ELSE members[i]]
    ELSE Append(members, << key, value >>)

\* json's scan_once, JSONObject and JSONArray
RECURSIVE ScanValue(_), ScanMembers(_, _), ScanElements(_, _)
ScanValue(s) ==
    IF s = << >> THEN Failed
    ELSE IF s[1][1] = 34 THEN ScanString(Drop(s, 1), << >>)
    ELSE IF s[1][1] = 123
    THEN IF SkipWs(Drop(s, 1)) # << >> /\ SkipWs(Drop(s, 1))[1][1] = 125
         THEN Parsed([obj |-> << >>], Drop(SkipWs(Drop(s, 1)), 1))
         ELSE ScanMembers(SkipWs(Drop(s, 1)), << >>)
    ELSE IF s[1][1] = 91
    THEN IF SkipWs(Drop(s, 1)) # << >> /\ SkipWs(Drop(s, 1))[1][1] = 93
         THEN Parsed([arr |-> << >>], Drop(SkipWs(Drop(s, 1)), 1))
         ELSE ScanElements(SkipWs(Drop(s, 1)), << >>)
    ELSE IF Take(s, 4) = Text(<< "n", "u", "l", "l" >>)
    THEN Parsed([lit |-> "null"], Drop(s, 4))
    ELSE IF Take(s, 4) = Text(<< "t", "r", "u", "e" >>)
    THEN Parsed([lit |-> "true"], Drop(s, 4))
    ELSE IF Take(s, 5) = Text(<< "f", "a", "l", "s", "e" >>)
    THEN Parsed([lit |-> "false"], Drop(s, 5))
    ELSE ScanNumber(s)

\* the members of an object from a key on: "key" : value, then , or }
ScanMembers(s, members) ==
    IF s = << >> \/ s[1][1] # 34 THEN Failed
    ELSE LET key == ScanString(Drop(s, 1), << >>) IN
         IF ~ key.ok THEN Failed
         ELSE LET colon == SkipWs(key.rest) IN
              IF colon = << >> \/ colon[1][1] # 58 THEN Failed
              ELSE LET value == ScanValue(SkipWs(Drop(colon, 1))) IN
                   IF ~ value.ok THEN Failed
                   ELSE LET next == SkipWs(value.rest)
                            so_far == DictSet(members, key.value.str, value.value)
                        IN IF next = << >> THEN Failed
                           ELSE IF next[1][1] = 125
                           THEN Parsed([obj |-> so_far], Drop(next, 1))
                           ELSE IF next[1][1] = 44
                           THEN ScanMembers(SkipWs(Drop(next, 1)), so_far)
                           ELSE Failed

\* the elements of an array from a value on: value, then , or ]
ScanElements(s, elements) ==
    LET value == ScanValue(s) IN
    IF ~ value.ok THEN Failed
    ELSE LET next == SkipWs(value.rest)
             so_far == Append(elements, value.value)
         IN IF next = << >> THEN Failed
            ELSE IF next[1][1] = 93
            THEN Parsed([arr |-> so_far], Drop(next, 1))
            ELSE IF next[1][1] = 44
            THEN ScanElements(SkipWs(Drop(next, 1)), so_far)
            ELSE Failed

\* json.loads(s): the value, or JSONDecodeError (also for anything but
\* whitespace after the value)
JsonLoads(s) ==
    LET scanned == ScanValue(SkipWs(s)) IN
    IF scanned.ok /\ SkipWs(scanned.rest) = << >>
    THEN [raised |-> "none", value |-> scanned.value]
    ELSE [raised |-> "JSONDecodeError", value |-> [lit |-> "null"]]

\* ------------------------------------------------------------ WireCodec

\* the largest payload length unpack_message_from_stream accepts:
\* 10 * 1024 * 1024
MaxPayloadLength == 10485760

\* struct.pack('>I', n) for 0 <= n < 2^31 (a larger n does not fit the
\* integers of TLC; 2^32 and more raise struct.error)
StructPackI(n) ==
    Codes(<< n \div 16777216, (n \div 65536) % 256, (n \div 256) % 256, n % 256 >>)

\* struct.unpack('>I', b)[0]; a first byte of 128 and more gives 2^31 and
\* more, which the integers of TLC do not hold: 2^31 - 1 stands for
\* each of them (the code compares them with the limit and does no more)
StructUnpackI(b) ==
    IF At(b, 1) > 127 THEN 2147483647
    ELSE ((At(b, 1) * 256 + At(b, 2)) * 256 + At(b, 3)) * 256 + At(b, 4)

\* a faulty variant of pack_message that cuts a long type code to four characters
PackMessageCutsType(msg_type, payload) ==
    LET padded_type == Take(Cat(msg_type, Run(32, 4)), 4)
        payload_bytes == Utf8Encode(JsonDumps(payload))
    IN IF payload_bytes.raised # "none"
       THEN [raised |-> payload_bytes.raised, bytes |-> << >>]
       ELSE IF \E i \in 1..Len(padded_type) : padded_type[i][1] > 127
       THEN [raised |-> "UnicodeEncodeError", bytes |-> << >>]
       ELSE [raised |-> "none",
             bytes |-> Cat(padded_type,
                           Cat(StructPackI(Size(payload_bytes.bytes)),
                               payload_bytes.bytes))]

\* a faulty variant of pack_message that does not pad a short type code
PackMessageUnpadded(msg_type, payload) ==
    IF Size(msg_type) > 4 THEN [raised |-> "ValueError", bytes |-> << >>]
    ELSE LET payload_bytes == Utf8Encode(JsonDumps(payload)) IN
         IF \E i \in 1..Len(msg_type) : msg_type[i][1] > 127
         THEN [raised |-> "UnicodeEncodeError", bytes |-> << >>]
         ELSE IF payload_bytes.raised # "none"
         THEN [raised |-> payload_bytes.raised, bytes |-> << >>]
         ELSE [raised |-> "none",
               bytes |-> Cat(msg_type,
                             Cat(StructPackI(Size(payload_bytes.bytes)),
                                 payload_bytes.bytes))]

\* pack_message: the bytes, or the exception raised (json.dumps and the
\* encoding of the payload come before the encoding of the type)
PackMessage(msg_type, payload) ==
    IF Size(msg_type) > 4 THEN [raised |-> "ValueError", bytes |-> << >>]
    ELSE LET padded_type == Take(Cat(msg_type, Run(32, 4 - Size(msg_type))), 4)
             payload_json == JsonDumps(payload)
             payload_bytes == Utf8Encode(payload_json)
         IN IF payload_bytes.raised # "none"
            THEN [raised |-> payload_bytes.raised, bytes |-> << >>]
            ELSE IF \E i \in 1..Len(padded_type) : padded_type[i][1] > 127
            THEN [raised |-> "UnicodeEncodeError", bytes |-> << >>]
            ELSE [raised |-> "none",
                  bytes |-> Cat(padded_type,
                                Cat(StructPackI(Size(payload_bytes.bytes)),
                                    payload_bytes.bytes))]

\* what a call of unpack_message_from_stream comes to: status is "ok",
\* "blocked" (readexactly waits for more bytes), or the exception raised;
\* at tells which read or check raised; rest is what is left in the reader
Unpacked(status, at, msg_type, payload, rest) ==
    [status |-> status, at |-> at, msg_type |-> msg_type, payload |-> payload,
     rest |-> rest]

\* readexactly(n) with fewer than n bytes buffered: it waits, or raises
\* IncompleteReadError when the stream has ended
ShortRead(at, eof, stream) ==
    IF eof THEN Unpacked("IncompleteReadError", at, << >>, [obj |-> << >>], << >>)
    ELSE Unpacked("blocked", at, << >>, [obj |-> << >>], stream)

\* a faulty variant of unpack_message_from_stream that reads the payload before it
\* checks the declared length
UnpackReadsBeforeCheck(stream, eof) ==
    IF Size(stream) < 4 THEN ShortRead("type", eof, stream)
    ELSE IF \E i \in 1..Len(Take(stream, 4)) : Take(stream, 4)[i][1] > 127
    THEN Unpacked("ValueError", "type", << >>, [obj |-> << >>], Drop(stream, 4))
    ELSE IF Size(stream) < 8 THEN ShortRead("length", eof, stream)
    ELSE LET payload_length == StructUnpackI(Take(Drop(stream, 4), 4)) IN
         IF Size(stream) - 8 < payload_length THEN ShortRead("payload", eof, stream)
         ELSE IF payload_length > MaxPayloadLength
         THEN Unpacked("ValueError", "size", << >>, [obj |-> << >>],
                       Drop(stream, 8 + payload_length))
         ELSE Unpacked("ok", "none", RStrip(Take(stream, 4)), [obj |-> << >>],
                       Drop(stream, 8 + payload_length))

\* unpack_message_from_stream on a reader that holds the bytes of stream,
\* eof telling whether the peer has closed
UnpackMessageFromStream(stream, eof) ==
    IF Size(stream) < 4 THEN ShortRead("type", eof, stream)
    ELSE LET type_bytes == Take(stream, 4) IN
    IF \E i \in 1..Len(type_bytes) : type_bytes[i][1] > 127
    THEN Unpacked("ValueError", "type", << >>, [obj |-> << >>], Drop(stream, 4))
    ELSE LET msg_type == RStrip(type_bytes) IN
    IF Size(stream) < 8 THEN ShortRead("length", eof, stream)
    ELSE LET payload_length == StructUnpackI(Take(Drop(stream, 4), 4)) IN
    IF payload_length > MaxPayloadLength
    THEN Unpacked("ValueError", "size", << >>, [obj |-> << >>], Drop(stream, 8))
    ELSE IF payload_length > 0
    THEN IF Size(stream) < 8 + payload_length
         THEN ShortRead("payload", eof, stream)
         ELSE LET payload_bytes == Take(Drop(stream, 8), payload_length)
                  payload_json == Utf8Decode(payload_bytes)
                  payload == JsonLoads(payload_json.text)
                  rest == Drop(stream, 8 + payload_length)
              IN IF payload_json.raised # "none" \/ payload.raised # "none"
                 THEN Unpacked("ValueError", "payload", << >>, [obj |-> << >>], rest)
                 ELSE Unpacked("ok", "none", msg_type, payload.value, rest)
    ELSE Unpacked("ok", "none", msg_type, [obj |-> << >>], Drop(stream, 8))

\* ------------------------------------------------- the codec, called alone

\* the type codes pack_message is called with: two of the protocol, a short
\* one, the empty one, one with a space in front, one with spaces behind,
\* one with a space inside, one that ends in a tab, one with a character
\* that is not ASCII (U+00E9), and one of five characters
TypeCodes ==
    { Text(<< "A", "U", "T", "H" >>), Text(<< "C", "O", "M", "P" >>),
      Text(<< "A", "B" >>), << >>, Text(<< " ", "A", "B" >>),
      Text(<< "A", " ", " " >>), Text(<< "A", " ", "B" >>),
      Cat(Text(<< "A", "B" >>), Run(9, 1)),
      Cat(Text(<< "A", "U", "T" >>), Run(233, 1)),
      Text(<< "P", "I", "N", "G", "S" >>) }

\* the str values of the payloads below
TokenKey == Text(<< "t", "o", "k", "e", "n" >>)

ModelKey == Text(<< "m", "o", "d", "e", "l" >>)

DevToken == Text(<< "d", "e", "v", "-", "t", "o", "k", "e", "n" >>)

GuestToken == Text(<< "g", "u", "e", "s", "t", "-", "t", "o", "k", "e", "n" >>)

BadToken == Text(<< "b", "a", "d", "-", "t", "o", "k", "e", "n" >>)

Llama3 == Text(<< "l", "l", "a", "m", "a", "3" >>)

Gpt4o == Text(<< "g", "p", "t", "-", "4", "o" >>)

\* the key of the padded payloads; its object is written {"pad": "aaa...a"},
\* eleven bytes around the padding
PadKey == Text(<< "p", "a", "d" >>)

Padded(times) == [obj |-> << << PadKey, [str |-> Run(97, times)] >> >>]

\* the payload objects pack_message is called with: the empty object; an
\* AUTH and a COMP payload; strings with a quote, a backslash, a newline, a
\* control character and a character that is not ASCII; null, a negative
\* number, a list and an object inside; one whose JSON text is exactly
\* 10 MiB long and one that is a byte longer; one with a lone surrogate
Payloads ==
    { [obj |-> << >>],
      [obj |-> << << TokenKey, [str |-> DevToken] >> >>],
      [obj |-> << << ModelKey, [str |-> Llama3] >>,
                  << Text(<< "s", "t", "r", "e", "a", "m" >>), [lit |-> "true"] >>,
                  << Text(<< "n" >>), [num |-> 12] >> >>],
      [obj |-> << << Text(<< "k" >>),
                     [str |-> Codes(<< 97, 34, 92, 92, 10, 1, 233, 32 >>)] >> >>],
      [obj |-> << << Text(<< "n" >>), [lit |-> "null"] >>,
                  << Text(<< "l" >>),
                     [arr |-> << [num |-> 0 - 7], [str |-> << >>],
                                 [obj |-> << >>], [lit |-> "false"] >>] >> >>],
      Padded(MaxPayloadLength - 11),
      Padded(MaxPayloadLength - 10),
      [obj |-> << << Text(<< "k" >>), [str |-> Run(55296, 1)] >> >>] }

\* the bytes that may follow a frame in the reader: none, the start of the
\* next frame, two closing braces
Tails == { << >>, Text(<< "A", "U", "T", "H" >>), Run(125, 2) }

\* the length fields of the headers given to unpack_message_from_stream: 0,
\* 2, 10 MiB, 10 MiB + 1, 2^31 - 1
LengthFields ==
    { << 0, 0, 0, 0 >>, << 0, 0, 0, 2 >>, << 0, 160, 0, 0 >>, << 0, 160, 0, 1 >>,
      << 127, 255, 255, 255 >> }

\* the bytes after a header: none, an empty object, an empty object and the
\* start of a frame, two bytes that are not UTF-8, two that are not JSON
Bodies ==
    { << >>, Text(<< "{", "}" >>), Text(<< "{", "}", "A", "U", "T", "H" >>),
      Codes(<< 123, 255 >>), Text(<< "{", "x" >>) }

\* the byte strings given to unpack_message_from_stream directly: every
\* header with every body, headers cut short, and type bytes that are not
\* ASCII
RawStreams ==
    { Cat(Cat(Text(<< "C", "O", "M", "P" >>), Codes(l)), b) :
          l \in LengthFields, b \in Bodies }
    \cup { << >>, Text(<< "A", "U" >>),
           Cat(Text(<< "C", "O", "M", "P" >>), Codes(<< 0, 0 >>)),
           Cat(Codes(<< 255, 65, 66, 67 >>), Codes(<< 0, 160, 0, 1 >>)),
           Cat(Codes(<< 255, 65, 66, 67 >>), Codes(<< 0, 0, 0, 0 >>)) }

\* the record of a call of the codec
CodecCall(op, msg_type, payload, packed, tail, stream, eof, result) ==
    [op |-> op, msg_type |-> msg_type, payload |-> payload, packed |-> packed,
     tail |-> tail, stream |-> stream, eof |-> eof, result |-> result]

\* the other variables stand still in a call of the codec
CodecFrame == UNCHANGED << gateway, sessions, conn, bridge, watch >>

\* pack_message(msg_type, payload)
PackCall(msg_type, payload) ==
    /\ codec' = CodecCall("pack", msg_type, payload, PackMessage(msg_type, payload),
                          << >>, << >>, FALSE, ShortRead("none", FALSE, << >>))
    /\ CodecFrame

\* unpack_message_from_stream on a reader that holds the bytes just packed
\* and the tail after them
UnpackPacked(tail, eof) ==
    /\ codec.op = "pack"
    /\ codec.packed.raised = "none"
    /\ codec' = CodecCall("unpack", codec.msg_type, codec.payload, codec.packed,
                          tail, Cat(codec.packed.bytes, tail), eof,
                          UnpackMessageFromStream(Cat(codec.packed.bytes, tail), eof))
    /\ CodecFrame

\* unpack_message_from_stream on a reader that holds the given bytes
UnpackCall(stream, eof) ==
    /\ codec' = CodecCall("read", << >>, [obj |-> << >>],
                          [raised |-> "none", bytes |-> << >>], << >>, stream, eof,
                          UnpackMessageFromStream(stream, eof))
    /\ CodecFrame

\* ------------------------------------------- a TCP connection, byte by byte

\* how many segments the client may send on the connection
MaxSends == 3

\* the str values the clients below send, with the strings they are in the
\* tables of the AuthManager and the ModelRouter
Names ==
    { << DevToken, "dev-token" >>, << GuestToken, "guest-token" >>,
      << BadToken, "bad-token" >>, << Llama3, "llama3" >>, << Gpt4o, "gpt-4o" >>,
      << TokenKey, "token" >>, << ModelKey, "model" >>, << << >>, "" >> }

Str(text) == (CHOOSE n \in Names : n[1] = text)[2]

\* dict.get on a decoded object: the value under the key, or None
JsonGet(payload, key) ==
    LET hits == { i \in 1..Len(payload.obj) : payload.obj[i][1] = key } IN
    IF hits = {} THEN None ELSE Some(payload.obj[CHOOSE i \in hits : TRUE][2])

\* the "token" and "model" parts of a decoded object as _handle_auth and
\* _handle_completion read them: a string, or None for a JSON null
AsFields(payload) ==
    [k \in { Str(key) : key \in { key \in { TokenKey, ModelKey } :
                                      JsonGet(payload, key) # None } } |->
        LET value == The(JsonGet(payload, CHOOSE key \in { TokenKey, ModelKey } :
                                              Str(key) = k))
        IN IF "str" \in DOMAIN value THEN Some(Str(value.str)) ELSE None]

\* the frames of the clients below
AuthType == Text(<< "A", "U", "T", "H" >>)

CompType == Text(<< "C", "O", "M", "P" >>)

\* the segments a client may send: a valid AUTH, a permitted COMP, frames
\* of other types (an unknown one, CHNK with a token in its payload, ERRO,
\* the empty code); a header that declares 10 MiB + 1; a header whose
\* type is not ASCII; a frame whose payload is not UTF-8 and one whose
\* payload is not JSON; the first two bytes of a type, and a header with the
\* first byte of the five it declares
Segments ==
    { PackMessage(AuthType, [obj |-> << << TokenKey, [str |-> DevToken] >> >>]).bytes,
      PackMessage(CompType, [obj |-> << << ModelKey, [str |-> Llama3] >> >>]).bytes,
      PackMessage(Text(<< "P", "I", "N", "G" >>), [obj |-> << >>]).bytes,
      PackMessage(Text(<< "C", "H", "N", "K" >>),
                  [obj |-> << << TokenKey, [str |-> GuestToken] >> >>]).bytes,
      PackMessage(Text(<< "E", "R", "R", "O" >>), [obj |-> << >>]).bytes,
      PackMessage(<< >>, [obj |-> << >>]).bytes,
      Cat(CompType, Codes(<< 0, 160, 0, 1 >>)),
      Cat(Codes(<< 255, 65, 66, 67 >>), Codes(<< 0, 0, 0, 0 >>)),
      Cat(Cat(CompType, Codes(<< 0, 0, 0, 2 >>)), Codes(<< 123, 255 >>)),
      Cat(Cat(AuthType, Codes(<< 0, 0, 0, 2 >>)), Text(<< "{", "x" >>)),
      Text(<< "A", "U" >>),
      Cat(Cat(CompType, Codes(<< 0, 0, 0, 5 >>)), Text(<< "{" >>)) }

\* what the provider yields in one relay, and how its stream finishes
FragmentRuns == { << >>, << "Hello", "" >> }

Endings == { "ended", "raised" }

\* the connection once _handle_client runs: inbox holds the bytes buffered in
\* the reader, eof tells that the client has closed its side, user is the
\* local authenticated_user, read the outcome of the last call of
\* unpack_message_from_stream, written the frames written since that call
Connected ==
    [state |-> "reading", inbox |-> << >>, eof |-> FALSE, user |-> None,
     sent |-> 0, read |-> Unpacked("none", "none", << >>, [obj |-> << >>], << >>),
     written |-> << >>]

\* a faulty variant of the handling of a short read that answers it like a bad payload
OnIncompleteReadContinues(c, got) ==
    [c EXCEPT !.inbox = got.rest, !.read = got,
              !.written = << CreateErrorResponse("INVALID_FORMAT") >>]

\* readexactly raised IncompleteReadError: it is no ConnectionError and no
\* ValueError, so it leaves the loop through `except Exception`, and the
\* finally closes the writer
OnIncompleteRead(c, got) ==
    [c EXCEPT !.state = "closed", !.inbox = got.rest, !.read = got,
              !.written = << >>]

\* a faulty variant of the except branch that drops the identity
OnValueErrorUnbinds(c, got) ==
    [c EXCEPT !.inbox = got.rest, !.read = got, !.user = None,
              !.written = << CreateErrorResponse("INVALID_FORMAT") >>]

\* `except ValueError`: ERRO{INVALID_FORMAT} is written and the loop goes on
\* with what is left in the reader
OnValueError(c, got) ==
    [c EXCEPT !.inbox = got.rest, !.read = got,
              !.written = << CreateErrorResponse("INVALID_FORMAT") >>]

\* a faulty variant of the dispatch that rebinds the identity after a frame of any type
OnFrameRebindsAny(c, got) ==
    LET payload == AsFields(got.payload) IN
    IF got.msg_type = AuthType
    THEN [c EXCEPT !.inbox = got.rest, !.read = got,
                   !.user = Rebind(payload, c.user),
                   !.written = << CreateAuthResponse(HandleAuth(payload) = "ARSP:true") >>]
    ELSE IF got.msg_type = CompType
    THEN LET outcome == CompBranch(payload, c.user) IN
         [c EXCEPT !.inbox = got.rest, !.read = got,
                   !.state = IF outcome = "CHNK" THEN "relaying" ELSE "reading",
                   !.written = IF outcome = "CHNK" THEN << >>
                               ELSE << CreateErrorResponse(ErrorCode(outcome)) >>]
    ELSE [c EXCEPT !.inbox = got.rest, !.read = got,
                   !.user = Rebind(payload, c.user),
                   !.written = << CreateErrorResponse("UNKNOWN_MESSAGE_TYPE") >>]

\* the branches of _handle_client for a frame that was read
OnFrame(c, got) ==
    LET payload == AsFields(got.payload) IN
    IF got.msg_type = AuthType
    THEN [c EXCEPT !.inbox = got.rest, !.read = got,
                   !.user = Rebind(payload, c.user),
                   !.written = << CreateAuthResponse(HandleAuth(payload) = "ARSP:true") >>]
    ELSE IF got.msg_type = CompType
    THEN LET outcome == CompBranch(payload, c.user) IN
         [c EXCEPT !.inbox = got.rest, !.read = got,
                   !.state = IF outcome = "CHNK" THEN "relaying" ELSE "reading",
                   !.written = IF outcome = "CHNK" THEN << >>
                               ELSE << CreateErrorResponse(ErrorCode(outcome)) >>]
    ELSE [c EXCEPT !.inbox = got.rest, !.read = got,
                   !.written = << CreateErrorResponse("UNKNOWN_MESSAGE_TYPE") >>]

\* the frames _handle_completion writes for the fragments of a relay
RECURSIVE RelayChunks(_, _)
RelayChunks(written, chunks) ==
    IF chunks = << >> THEN written
    ELSE RelayChunks(RelayChunk(written, Head(chunks)), Tail(chunks))

\* the other variables stand still in a step of the connection
WireFrame == UNCHANGED << gateway, sessions, codec, bridge, watch >>

\* asyncio.start_server starts _handle_client for the connection
WireAccept ==
    /\ conn.state = "listening"
    /\ conn' = Connected
    /\ WireFrame

\* a segment of the client arrives in the reader
ClientSends(segment) ==
    /\ conn.state \in { "reading", "relaying" }
    /\ ~ conn.eof
    /\ conn.sent < MaxSends
    /\ conn' = [conn EXCEPT !.inbox = Cat(@, segment), !.sent = @ + 1]
    /\ WireFrame

\* the client closes its side: the reader is fed eof
ClientCloses ==
    /\ conn.state \in { "reading", "relaying" }
    /\ ~ conn.eof
    /\ conn' = [conn EXCEPT !.eof = TRUE]
    /\ WireFrame

\* one turn of the loop of _handle_client: unpack_message_from_stream
\* returns or raises (while it waits for bytes nothing happens), and the
\* frame or the exception is handled
ServerReads ==
    /\ conn.state = "reading"
    /\ LET got == UnpackMessageFromStream(conn.inbox, conn.eof) IN
       /\ got.status # "blocked"
       /\ conn' = CASE got.status = "IncompleteReadError" -> OnIncompleteRead(conn, got)
                    [] got.status = "ValueError" -> OnValueError(conn, got)
                    [] got.status = "ok" -> OnFrame(conn, got)
    /\ WireFrame

\* the relay of _handle_completion runs to its end: the fragments are
\* forwarded, then the final chunk or ERRO{GENERATION_ERROR} is written
WireRelay(chunks, ending) ==
    /\ conn.state = "relaying"
    /\ conn' = [conn EXCEPT
           !.state = "reading",
           !.written = IF ending = "ended" THEN RelayEnd(RelayChunks(@, chunks))
                       ELSE RelayRaised(RelayChunks(@, chunks))]
    /\ WireFrame

\* the connection is lost during a relay: drain raises out of the loop and
\* the finally closes the writer
WireReset ==
    /\ conn.state = "relaying"
    /\ conn' = [conn EXCEPT !.state = "closed"]
    /\ WireFrame

\* ------------------------------------------- the ModelRouter, called alone

\* how many entries the `models` list of a configuration may have
MaxModels == 3

\* the entries a models.yml may hold: three ids (the last in no user's
\* permissions), and provider types that are known, known in another case,
\* and unknown
ModelEntries ==
    [id : { "llama3", "gpt-4o", "mistral" }, provider : { "ollama", "OpenAI", "bogus" }]

\* the `models` lists of at most n entries (ids may repeat)
RECURSIVE ModelLists(_)
ModelLists(n) ==
    IF n = 0 THEN { << >> }
    ELSE ModelLists(n - 1) \cup
         { Append(cfg, e) : cfg \in { l \in ModelLists(n - 1) : Len(l) = n - 1 },
                            e \in ModelEntries }

\* what the constructors of the providers find: OPENAI_API_KEY in the
\* environment or not, and the classes whose constructor raises (the unit
\* tests patch the classes)
Environments ==
    [api_key : { None, Some("sk-test") },
     raising : { { }, { "OllamaProvider" } }]

\* a dict in the order of its insertions: its keys, `key in dict`, dict.get
DictKeys(members) == [i \in 1..Len(members) |-> members[i][1]]

DictHas(members, key) == \E i \in 1..Len(members) : members[i][1] = key

DictGet(members, key) ==
    IF DictHas(members, key)
    THEN Some(members[CHOOSE i \in 1..Len(members) : members[i][1] = key][2])
    ELSE None

\* a faulty variant of _create_provider that keeps one instance per provider class
CreateProviderInShared(env, provider_type, nth) ==
    IF Lower(provider_type) = "ollama"
    THEN IF "OllamaProvider" \in env.raising THEN None
         ELSE Some([class |-> "OllamaProvider", obj |-> 0])
    ELSE IF Lower(provider_type) = "openai"
    THEN IF "OpenAIProvider" \in env.raising \/ env.api_key = None THEN None
         ELSE Some([class |-> "OpenAIProvider", obj |-> 0])
    ELSE None

\* _create_provider in the environment, for the nth entry: the new provider
\* object, or None (unsupported type, no API key, or the constructor raised)
CreateProviderIn(env, provider_type, nth) ==
    IF Lower(provider_type) = "ollama"
    THEN IF "OllamaProvider" \in env.raising THEN None
         ELSE Some([class |-> "OllamaProvider", obj |-> nth])
    ELSE IF Lower(provider_type) = "openai"
    THEN IF "OpenAIProvider" \in env.raising \/ env.api_key = None THEN None
         ELSE Some([class |-> "OpenAIProvider", obj |-> nth])
    ELSE None

\* a faulty variant of the loop of load_models that keeps the configuration of an
\* entry only when its provider was constructed
RECURSIVE LoadEntriesKeepsBuilt(_, _, _, _)
LoadEntriesKeepsBuilt(env, cfg, nth, loaded) ==
    IF nth > Len(cfg) THEN loaded
    ELSE LET model_config == cfg[nth]
             provider_instance == CreateProviderIn(env, model_config.provider, nth)
         IN LoadEntriesKeepsBuilt(env, cfg, nth + 1,
                IF provider_instance # None
                THEN [model_configs |->
                          DictSet(loaded.model_configs, model_config.id, model_config),
                      model_providers |->
                          DictSet(loaded.model_providers, model_config.id,
                                  The(provider_instance))]
                ELSE loaded)

\* the loop of load_models over config['models'], from entry nth on, the two
\* dicts kept in the order of their insertions
RECURSIVE LoadEntries(_, _, _, _)
LoadEntries(env, cfg, nth, loaded) ==
    IF nth > Len(cfg) THEN loaded
    ELSE LET model_config == cfg[nth]
             provider_instance == CreateProviderIn(env, model_config.provider, nth)
         IN LoadEntries(env, cfg, nth + 1,
                [model_configs |->
                     DictSet(loaded.model_configs, model_config.id, model_config),
                 model_providers |->
                     IF provider_instance # None
                     THEN DictSet(loaded.model_providers, model_config.id,
                                  The(provider_instance))
                     ELSE loaded.model_providers])

\* a faulty variant of get_available_models that lists every configured id
GetAvailableModelsConfigured(r) == DictKeys(r.model_configs)

\* get_available_models: list(self.model_providers.keys())
GetAvailableModels(r) == DictKeys(r.model_providers)

\* is_model_available: model_id in self.model_providers
IsModelAvailable(r, model_id) == DictHas(r.model_providers, model_id)

\* get_provider_for_model and get_model_config: dict.get
GetProviderFor(r, model_id) == DictGet(r.model_providers, model_id)

GetModelConfig(r, model_id) == DictGet(r.model_configs, model_id)

\* the other variables stand still in a call of the router
RouterFrame == UNCHANGED << gateway, sessions, codec, conn, http, ws, watch >>

\* ModelRouter(): both dicts empty; a process constructs its router once
RouterInit ==
    /\ model_router = NoRouter
    /\ model_router' = [state |-> "new", cfg |-> << >>,
                        env |-> [api_key |-> None, raising |-> { }],
                        model_providers |-> << >>, model_configs |-> << >>]
    /\ RouterFrame

\* load_models on the new router, the file holding the list cfg; the list
\* and the environment are kept beside the dicts
LoadModelsCall(cfg, env) ==
    /\ model_router.state = "new"
    /\ LET loaded == LoadEntries(env, cfg, 1,
                         [model_configs |-> model_router.model_configs,
                          model_providers |-> model_router.model_providers])
       IN model_router' = [state |-> "loaded", cfg |-> cfg, env |-> env,
                           model_providers |-> loaded.model_providers,
                           model_configs |-> loaded.model_configs]
    /\ RouterFrame

\* --------------------------------------------------------- GET /v1/models

\* the ids of the list the user of the token is authorized for, in the order
\* of the list
RECURSIVE AuthorizedOf(_, _)
AuthorizedOf(token, model_ids) ==
    IF model_ids = << >> THEN << >>
    ELSE IF IsAuthorized(users, token, Head(model_ids))
    THEN << Head(model_ids) >> \o AuthorizedOf(token, Tail(model_ids))
    ELSE AuthorizedOf(token, Tail(model_ids))

\* the response of GET /v1/models: its status and the ids of its data (None
\* when the response is an error and has no list)
ModelsResponse(authorization, status, data) ==
    [state |-> "done", route |-> "models", authorization |-> authorization,
     status |-> status, data |-> data]

\* a faulty variant of list_models that lists every available model
ListModelsUnfiltered(authorization, r) ==
    IF authorization = NoHeader \/ The(authorization).prefix # "Bearer "
    THEN ModelsResponse(authorization, "401", None)
    ELSE IF Authenticate(users, The(authorization).rest) = None
    THEN ModelsResponse(authorization, "401", None)
    ELSE ModelsResponse(authorization, "200", Some(GetAvailableModels(r)))

\* _extract_token, then list_models on the router r
ListModels(authorization, r) ==
    IF authorization = NoHeader \/ The(authorization).prefix # "Bearer "
    THEN ModelsResponse(authorization, "401", None)
    ELSE LET token == The(authorization).rest IN
         IF Authenticate(users, token) = None
         THEN ModelsResponse(authorization, "401", None)
         ELSE ModelsResponse(authorization, "200",
                             Some(AuthorizedOf(token, GetAvailableModels(r))))

\* GET /v1/models on a server built on the loaded router
HttpListModels(authorization) ==
    /\ model_router.state = "loaded"
    /\ http' = ListModels(authorization, model_router)
    /\ UNCHANGED << gateway, sessions, codec, conn, model_router, ws, watch >>

\* ------------------------- POST /v1/chat/completions, up to its last byte

\* request.stream: Optional[bool], absent from the body (None), false or true
StreamFlags == { None, Some(FALSE), Some(TRUE) }

\* `if request.stream:`
Streamed(stream) == stream = Some(TRUE)

\* the data payloads of the SSE body: a ChatCompletionStreamResponse with its
\* one choice (the content of its delta, None for the delta {}; its
\* finish_reason), the [DONE] line, and the error payload with its code
StreamChoice(content, finish_reason) ==
    [data |-> "chat.completion.chunk", content |-> content,
     finish_reason |-> finish_reason, code |-> None]

DoneLine == [data |-> "[DONE]", content |-> None, finish_reason |-> None, code |-> None]

StreamError ==
    [data |-> "error", content |-> None, finish_reason |-> None,
     code |-> Some("stream_error")]

\* a faulty variant of the streaming loop that forwards empty fragments too
StreamChunkForwardsEmpty(body, chunk) ==
    Append(body, StreamChoice(Some(chunk), None))

\* the body of _stream_chat_completion's async for: `if chunk:` yield one
\* data payload with delta {"content": chunk}
StreamChunk(body, chunk) ==
    IF chunk # "" THEN Append(body, StreamChoice(Some(chunk), None)) ELSE body

\* after the async for: the final chunk, then the [DONE] line
StreamEnd(body) ==
    Append(Append(body, StreamChoice(None, Some("stop"))), DoneLine)

\* a faulty variant of the except branch that still closes the stream
StreamRaisedThenDone(body) == Append(Append(body, StreamError), DoneLine)

\* the except branch of _stream_chat_completion: one error payload
StreamRaised(body) == Append(body, StreamError)

\* the body of _complete_chat_completion's async for
CompleteChunk(complete_content, chunk) == complete_content \o chunk

\* a faulty variant of the buffered failure that answers with what it has
CompleteRaisedReturnsPartial(exchange) ==
    [exchange EXCEPT !.state = "done", !.provider = "raised", !.status = "200",
                     !.content = Some(exchange.complete_content)]

\* the provider raises inside _complete_chat_completion: chat_completions'
\* except turns it into HTTPException(500); complete_content is dropped
CompleteRaised(exchange) ==
    [exchange EXCEPT !.state = "done", !.provider = "raised", !.status = "500",
                     !.content = None]

\* _complete_chat_completion returns: one ChatCompletionResponse whose
\* message holds complete_content
CompleteEnd(exchange) ==
    [exchange EXCEPT !.state = "done", !.provider = "ended", !.status = "200",
                     !.content = Some(exchange.complete_content)]

\* an exchange on /v1/chat/completions: where it stands, request.stream, the
\* status line ("pending" until it is sent), the fragments the provider
\* yielded, the SSE payloads sent, complete_content and the content of the
\* one buffered response (None until there is one)
ChatExchange(state, stream, status, provider) ==
    [state |-> state, route |-> "chat", stream |-> stream, status |-> status,
     provider |-> provider, yielded |-> << >>, body |-> << >>,
     complete_content |-> "", content |-> None]

\* the request is being served
InFlight(exchange) == exchange.state \in { "streaming", "buffering" }

\* the other variables stand still in a step of an HTTP exchange
HttpFrame == UNCHANGED << sessions, codec, conn, model_router, ws, watch >>

\* POST /v1/chat/completions from the request to the call of the provider:
\* an HTTPException of the admission, or the StreamingResponse is returned
\* (its generator not yet started), or _complete_chat_completion is awaited.
\* One request is followed at a time: requests share the rate limits only.
HttpExchange(authorization, model, stream) ==
    /\ ~ InFlight(http)
    /\ HttpChatCompletions(authorization, model)
    /\ http' = IF ~ last'.started
               THEN ChatExchange("done", stream, last'.outcome, "idle")
               ELSE IF Streamed(stream)
               THEN ChatExchange("streaming", stream, "200", "streaming")
               ELSE ChatExchange("buffering", stream, "pending", "streaming")
    /\ HttpFrame

\* the provider yields its next fragment
HttpProviderYields(chunk) ==
    /\ InFlight(http)
    /\ Len(http.yielded) < MaxFragments
    /\ http' = IF http.state = "streaming"
               THEN [http EXCEPT !.yielded = Append(@, chunk),
                                 !.body = StreamChunk(@, chunk)]
               ELSE [http EXCEPT !.yielded = Append(@, chunk),
                                 !.complete_content = CompleteChunk(@, chunk)]
    /\ UNCHANGED gateway
    /\ HttpFrame

\* the provider's stream ends
HttpProviderEnds ==
    /\ InFlight(http)
    /\ http' = IF http.state = "streaming"
               THEN [http EXCEPT !.state = "done", !.provider = "ended",
                                 !.body = StreamEnd(@)]
               ELSE CompleteEnd(http)
    /\ UNCHANGED gateway
    /\ HttpFrame

\* the provider raises, before its first fragment or after some
HttpProviderRaises ==
    /\ InFlight(http)
    /\ http' = IF http.state = "streaming"
               THEN [http EXCEPT !.state = "done", !.provider = "raised",
                                 !.body = StreamRaised(@)]
               ELSE CompleteRaised(http)
    /\ UNCHANGED gateway
    /\ HttpFrame

\* ------------------------- /v1/chat/completions/ws, message by message

\* the JSON messages send_json sends: a chat.completion.chunk with its one
\* choice (the content of its delta, None for the delta {}), or an error
\* with its type
WsChunk(content, finish_reason) ==
    [object |-> "chat.completion.chunk", content |-> content,
     finish_reason |-> finish_reason, error |-> None]

WsError(error_type) ==
    [object |-> "error", content |-> None, finish_reason |-> None,
     error |-> Some(error_type)]

\* the exceptions a send_json may raise once the client is gone
SendErrors == { "WebSocketDisconnect", "RuntimeError" }

\* a send that may fail: None when it was sent, the exception raised otherwise
SendOutcomes == { None } \cup { Some(exc) : exc \in SendErrors }

\* the connection as websocket_chat_completions holds it: where the
\* coroutine stands, whether the socket is in _active_websockets, the
\* message of this turn of the loop, the local `user` (left as it was by a
\* turn that does not reach authenticate), the provider and the fragments it
\* yielded for this message, the messages sent in answer to it, and the
\* exception that ended the loop (None while it runs)
WsAccepted ==
    [state |-> "open", active |-> TRUE, data |-> None, user |-> None,
     provider |-> "idle", yielded |-> << >>, sent |-> << >>, left |-> None]

\* the local `user` after the turn for the message
UserAfter(data, user) ==
    IF Falsy(Get(data, "token")) THEN user
    ELSE IF Authenticate(users, The(Get(data, "token"))) = None THEN None
    ELSE Get(data, "token")

\* a faulty variant of a rejection that leaves the loop after its answer
WsRejectedBreaks(socket, data, error_type) ==
    [socket EXCEPT !.state = "closed", !.active = FALSE, !.data = Some(data),
                   !.user = UserAfter(data, socket.user), !.provider = "idle",
                   !.yielded = << >>, !.sent = << WsError(error_type) >>]

\* a check of the loop fails: one error message, then `continue`
WsRejected(socket, data, error_type) ==
    [socket EXCEPT !.data = Some(data), !.user = UserAfter(data, socket.user),
                   !.provider = "idle", !.yielded = << >>,
                   !.sent = << WsError(error_type) >>]

\* every check passed: provider.stream_completion is called
WsStarted(socket, data) ==
    [socket EXCEPT !.state = "relaying", !.data = Some(data),
                   !.user = UserAfter(data, socket.user),
                   !.provider = "streaming", !.yielded = << >>, !.sent = << >>]

\* a faulty variant of the relay loop that forwards empty fragments too
WsChunkForwardsEmpty(sent, chunk) == Append(sent, WsChunk(Some(chunk), None))

\* the body of the async for: `if chunk:` send one chunk message
WsRelayChunk(sent, chunk) ==
    IF chunk # "" THEN Append(sent, WsChunk(Some(chunk), None)) ELSE sent

\* after the async for: the final chunk
WsRelayEnd(sent) == Append(sent, WsChunk(None, Some("stop")))

\* a faulty variant of the inner except that still sends the final chunk
WsRelayRaisedThenFinal(sent) ==
    Append(Append(sent, WsError("generation_error")), WsChunk(None, Some("stop")))

\* the inner except: one generation_error message
WsRelayRaised(sent) == Append(sent, WsError("generation_error"))

\* a faulty variant of the outer handlers whose server_error send is not guarded
WsLeavesUnguarded(exc) ==
    IF "WebSocketDisconnect" \in Bases(exc) THEN "closed" ELSE "crashed"

\* an exception leaves the loop: `except WebSocketDisconnect` logs it,
\* `except Exception` logs it and tries a server_error send whose own
\* failure is passed over; "crashed" when the exception leaves the handler
WsLeaves(exc) ==
    IF "WebSocketDisconnect" \in Bases(exc) THEN "closed"
    ELSE IF "Exception" \in Bases(exc) THEN "closed"
    ELSE "crashed"

\* a send raised exc: the relay is abandoned, the error send of the inner
\* except raises as well, the loop is left and the finally takes the socket
\* out of _active_websockets
WsDropped(socket, exc) ==
    [socket EXCEPT !.state = WsLeaves(exc), !.active = FALSE,
                   !.provider = "abandoned", !.left = Some(exc)]

\* the other variables stand still in a step of the WebSocket
WsFrame == UNCHANGED << sessions, codec, conn, model_router, http, watch >>

\* websocket.accept(), and the socket joins _active_websockets
WsAccept ==
    /\ ws = NotOpened
    /\ ws' = WsAccepted
    /\ UNCHANGED gateway
    /\ WsFrame

\* receive_json returns a message: one turn of the loop up to its
\* `continue` or to the call of the provider
WsTurn(data) ==
    /\ ws.state = "open"
    /\ WsMessage(data)
    /\ ws' = IF last'.started THEN WsStarted(ws, data)
             ELSE WsRejected(ws, data, last'.outcome)
    /\ WsFrame

\* receive_json raises WebSocketDisconnect: the client closed between two
\* messages
WsDisconnected ==
    /\ ws.state = "open"
    /\ ws' = [ws EXCEPT !.state = WsLeaves("WebSocketDisconnect"), !.active = FALSE,
                        !.left = Some("WebSocketDisconnect")]
    /\ UNCHANGED gateway
    /\ WsFrame

\* the provider yields its next fragment; the send of a non-empty one may fail
WsProviderYields(chunk, outcome) ==
    /\ ws.state = "relaying"
    /\ Len(ws.yielded) < MaxFragments
    /\ chunk = "" => outcome = None
    /\ ws' = IF outcome = None
             THEN [ws EXCEPT !.yielded = Append(@, chunk),
                             !.sent = WsRelayChunk(@, chunk)]
             ELSE WsDropped([ws EXCEPT !.yielded = Append(@, chunk)], The(outcome))
    /\ UNCHANGED gateway
    /\ WsFrame

\* the provider's stream ends; the send of the final chunk may fail
WsProviderEnds(outcome) ==
    /\ ws.state = "relaying"
    /\ ws' = IF outcome = None
             THEN [ws EXCEPT !.state = "open", !.provider = "ended",
                             !.sent = WsRelayEnd(@)]
             ELSE WsDropped(ws, The(outcome))
    /\ UNCHANGED gateway
    /\ WsFrame

\* the provider raises; the send of the error message may fail
WsProviderRaises(outcome) ==
    /\ ws.state = "relaying"
    /\ ws' = IF outcome = None
             THEN [ws EXCEPT !.state = "open", !.provider = "raised",
                             !.sent = WsRelayRaised(@)]
             ELSE [WsDropped(ws, The(outcome)) EXCEPT !.provider = "raised"]
    /\ UNCHANGED gateway
    /\ WsFrame

\* --------------------------------- the relay loop, await by await

\* the relays that stream: the CHNK frames of _handle_completion, the SSE
\* lines of _stream_chat_completion, the messages of the WebSocket loop
Transports == { "tcp", "sse", "ws" }

\* where the body of the async for waits for its write: in `await
\* writer.drain()` after writer.write, suspended at its `yield` until the
\* response asks for the next line, in `await websocket.send_json(...)`
WriteAwait(transport) ==
    CASE transport = "tcp" -> "drain"
      [] transport = "sse" -> "yield"
      [] transport = "ws" -> "send_json"

\* the relay coroutine when it enters its async for: at is where it waits
\* ("provider" in the __anext__ of the provider's generator), pulled the
\* fragments it got from the provider, held the fragments it has and has not
\* written yet, completed the fragments whose write has returned
Relaying(transport) ==
    [state |-> "relaying", transport |-> transport, at |-> "provider",
     pulled |-> << >>, held |-> << >>, completed |-> << >>]

\* a faulty variant of the loop that asks the provider again while its write waits
MayPullDuringWrite(r) == r.at # "done"

\* the async for asks the provider for its next fragment only from the top
\* of the loop: the body, with its await, has run to its end
MayPull(r) == r.at = "provider"

\* the loop's body on the fragment it got: `if chunk:` the frame is made and
\* its write awaited; an empty fragment is dropped and the loop goes on
OnChunk(r, chunk) ==
    IF chunk # ""
    THEN [r EXCEPT !.pulled = Append(@, chunk), !.held = Append(@, chunk),
                   !.at = WriteAwait(r.transport)]
    ELSE [r EXCEPT !.pulled = Append(@, chunk)]

\* the other variables stand still in a step of the relay
RelayFrame == UNCHANGED << gateway, sessions, codec, conn, bridge, granted >>

\* a relay starts on one of the transports
RelayStarts(transport) ==
    /\ relay = NoRelay
    /\ relay' = Relaying(transport)
    /\ RelayFrame

\* the provider hands over its next fragment
RelayPulls(chunk) ==
    /\ relay.state = "relaying"
    /\ MayPull(relay)
    /\ Len(relay.pulled) < MaxFragments
    /\ relay' = OnChunk(relay, chunk)
    /\ RelayFrame

\* the awaited write returns (the client has taken enough, or the
\* response asks for the next line): the body is over
WriteReturns ==
    /\ relay.state = "relaying"
    /\ relay.at = WriteAwait(relay.transport)
    /\ relay' = [relay EXCEPT !.completed = Append(@, Head(relay.held)),
                              !.held = Tail(@),
                              !.at = IF Tail(relay.held) = << >> THEN "provider" ELSE @]
    /\ RelayFrame

\* the provider's stream ends or raises at the top of the loop, or the
\* awaited write raises: the async for is left
RelayLeaves ==
    /\ relay.state = "relaying"
    /\ relay' = [relay EXCEPT !.state = "done", !.at = "done"]
    /\ RelayFrame

\* ------------------------------------- users.yml with other rate limits

\* the rate_limit strings a users.yml may give a user: the four units, an
\* unknown and an empty unit, and strings whose split or whose int() raises
RateLimitStrings ==
    { << "2", "/", "m", "i", "n", "u", "t", "e" >>,
      << "1", "/", "s", "e", "c", "o", "n", "d" >>,
      << "2", "/", "h", "o", "u", "r" >>,
      << "1", "/", "d", "a", "y" >>,
      << "2", "/", "w", "e", "e", "k" >>,
      << "2", "/" >>,
      << "x" >>,
      << >>,
      << "a", "/", "m", "i", "n", "u", "t", "e" >>,
      << "/", "m", "i", "n", "u", "t", "e" >>,
      << "1", "/", "2", "/", "m", "i", "n", "u", "t", "e" >> }

\* the strings _parse_rate_limit is called with: those, the ones of its unit
\* tests, and signed numbers
ParseInputs ==
    RateLimitStrings \cup
    { << "1", "0", "/", "m", "i", "n", "u", "t", "e" >>,
      << "1", "0", "0", "/", "h", "o", "u", "r" >>,
      << "5", "/", "s", "e", "c", "o", "n", "d" >>,
      << "1", "0", "0", "0", "/", "d", "a", "y" >>,
      << "5", "/", "u", "n", "k", "n", "o", "w", "n" >>,
      << "-", "1", "/", "m", "i", "n", "u", "t", "e" >>,
      << "+", "3", "/", "h", "o", "u", "r" >>,
      << "2", "/", "M", "i", "n", "u", "t", "e" >>,
      << "2", "/", "m", "i", "n", "u", "t", "e", "/" >> }

\* a users.yml whose one user has the given rate_limit
PolicyYml(rate_limit_str) ==
    << [token |-> "dev-token", name |-> "Developer",
        permissions |-> << "llama3", "gpt-4o" >>,
        rate_limit |-> rate_limit_str] >>

\* the AuthManager after load_users on one of these files
InitPolicy ==
    /\ \E s \in RateLimitStrings : users = LoadUsers(PolicyYml(s))
    /\ rate_limit_tracker = << >>
    /\ model_providers = LoadModels(ModelsYml).model_providers
    /\ model_configs = LoadModels(ModelsYml).model_configs
    /\ now = 0
    /\ ticks = 0
    /\ authenticated_user = None
    /\ tcp_open = FALSE
    /\ last = NoRequest
    /\ denied_since = [t \in DOMAIN LoadUsers(UsersYml) |-> None]
    /\ denied_ever = [t \in DOMAIN LoadUsers(UsersYml) |-> None]
    /\ sessions = [c \in Conns |-> NotAccepted]
    /\ codec = NoCall
    /\ conn = NotConnected
    /\ model_router = NoRouter
    /\ http = NoExchange
    /\ ws = NotOpened
    /\ granted = [t \in DOMAIN LoadUsers(UsersYml) |-> << >>]
    /\ relay = NoRelay

\* a call of _parse_rate_limit(rate_limit_str), as the unit tests call it
ParseRateLimitCall(rate_limit_str) ==
    /\ last' = [transport |-> "direct", kind |-> "_parse_rate_limit",
                arg |-> rate_limit_str, outcome |-> ParseRateLimit(rate_limit_str)]
    /\ UNCHANGED << users, rate_limit_tracker, model_providers, model_configs,
                    now, ticks, authenticated_user, tcp_open,
                    denied_since, denied_ever >>

\* ------------------------------------------------------- specifications

\* the frame-level sessions, the codec calls, the byte-level connection and
\* the responses of the bridge take no part in the requests below
framed == << sessions, codec, conn, bridge, watch >>

\* the gateway: the three transports and the clock
Next ==
    \/ \E d \in TickSteps : Tick(d) /\ UNCHANGED framed
    \/ \E h \in Headers, m \in Models : HttpChatCompletions(h, m) /\ UNCHANGED framed
    \/ \E data \in WsMessages : WsMessage(data) /\ UNCHANGED framed
    \/ TcpAccept /\ UNCHANGED framed
    \/ TcpDisconnect /\ UNCHANGED framed
    \/ \E payload \in TokenFields : TcpAuth(payload) /\ UNCHANGED framed
    \/ \E payload \in ModelFields : TcpComp(payload) /\ UNCHANGED framed
    \/ \E t \in OtherTypes : TcpOther(t) /\ UNCHANGED framed

Spec == Init /\ [][Next]_vars

\* the AuthManager alone, called directly as its unit tests call it
NextAuth ==
    \/ \E d \in AuthTickSteps : AuthTick(d) /\ UNCHANGED framed
    \/ \E t \in Tokens : CheckRateLimitCall(t) /\ UNCHANGED framed
    \/ \E t \in Tokens, m \in Models : IsAuthorizedCall(t, m) /\ UNCHANGED framed

SpecAuth == Init /\ [][NextAuth]_vars

\* the rate limiter alone, with the history of its denials
NextHeal ==
    \/ \E d \in AuthTickSteps : AuthTick(d) /\ UNCHANGED framed
    \/ \E t \in Tokens : CheckRateLimitWatched(t) /\ UNCHANGED framed

SpecHeal == Init /\ [][NextHeal]_vars

\* the TCP server: every connection served by its own _handle_client, the
\* providers yielding, ending or raising as they will
NextTcp ==
    \/ \E c \in Conns : SessionAccept(c)
    \/ \E c \in Conns : SessionEof(c)
    \/ \E c \in Conns : SessionReset(c)
    \/ \E c \in Conns, payload \in TokenFields : SessionAuth(c, payload)
    \/ \E c \in Conns, payload \in ModelFields : SessionComp(c, payload)
    \/ \E c \in Conns, t \in OtherTypes : SessionOther(c, t)
    \/ \E c \in Conns, chunk \in Fragments : ProviderYields(c, chunk)
    \/ \E c \in Conns : ProviderEnds(c)
    \/ \E c \in Conns : ProviderRaises(c)

SpecTcp == Init /\ [][NextTcp]_vars

\* the codec alone: pack_message, and unpack_message_from_stream on packed
\* and on given bytes
NextCodec ==
    \/ \E t \in TypeCodes, p \in Payloads : PackCall(t, p)
    \/ \E tail \in Tails, eof \in BOOLEAN : UnpackPacked(tail, eof)
    \/ \E s \in RawStreams, eof \in BOOLEAN : UnpackCall(s, eof)

SpecCodec == Init /\ [][NextCodec]_vars

\* one TCP connection at the level of its bytes: the client sends segments
\* and closes, _handle_client reads frame after frame
NextWire ==
    \/ WireAccept
    \/ \E segment \in Segments : ClientSends(segment)
    \/ ClientCloses
    \/ ServerReads
    \/ \E chunks \in FragmentRuns, ending \in Endings : WireRelay(chunks, ending)
    \/ WireReset

SpecWire == Init /\ [][NextWire]_vars

\* the lists a models.yml may hold
ConfiguredLists == ModelLists(MaxModels)

\* load_models on the new router, on any of the lists in any environment
LoadModelsAny ==
    /\ model_router.state = "new"
    /\ \E cfg \in ConfiguredLists, env \in Environments : LoadModelsCall(cfg, env)

\* a ModelRouter made and loaded as main.py and the unit tests do
NextRouter ==
    \/ RouterInit
    \/ LoadModelsAny

SpecRouter == Init /\ [][NextRouter]_vars

\* the HTTP server on a router loaded from any of the lists, asked for its models
NextModels ==
    \/ RouterInit
    \/ LoadModelsAny
    \/ \E h \in Headers : HttpListModels(h)

SpecModels == Init /\ [][NextModels]_vars

\* the HTTP bridge serving chat completions, the providers yielding, ending
\* or raising as they will
NextHttp ==
    \/ \E h \in Headers, m \in Models, s \in StreamFlags : HttpExchange(h, m, s)
    \/ \E chunk \in Fragments : HttpProviderYields(chunk)
    \/ HttpProviderEnds
    \/ HttpProviderRaises

SpecHttp == Init /\ [][NextHttp]_vars

\* one WebSocket connection of the HTTP bridge, message after message
NextWs ==
    \/ WsAccept
    \/ \E data \in WsMessages : WsTurn(data)
    \/ WsDisconnected
    \/ \E chunk \in Fragments, outcome \in SendOutcomes : WsProviderYields(chunk, outcome)
    \/ \E outcome \in SendOutcomes : WsProviderEnds(outcome)
    \/ \E outcome \in SendOutcomes : WsProviderRaises(outcome)

SpecWs == Init /\ [][NextWs]_vars

\* the HTTP bridge with its two routes for chat completions.  A request of
\* one route and a message of the other meet in the rate limits of the
\* AuthManager only, which Spec interleaves; here a behaviour follows the
\* route it began with up to the last byte of each answer
NextBridge ==
    \/ ws = NotOpened /\ NextHttp
    \/ http = NoExchange /\ NextWs

SpecBridge == Init /\ [][NextBridge]_vars

\* the two transports that hold a connection open, each losing its client
\* where it will.  The TCP sessions and the WebSocket share no state that a
\* relay reads: a behaviour follows one of them
NextDrop ==
    \/ ws = NotOpened /\ NextTcp
    \/ sessions = [c \in Conns |-> NotAccepted] /\ NextWs

SpecDrop == Init /\ [][NextDrop]_vars

\* the TCP server with every kind of frame a client may send: the sessions
\* above with the payloads that are no object, or the connection byte by
\* byte with its malformed frames
NextAnswer ==
    \/ conn = NotConnected /\ NextTcp
    \/ conn = NotConnected /\ \E c \in Conns, payload \in OddPayloads : SessionAuthOdd(c, payload)
    \/ conn = NotConnected /\ \E c \in Conns, payload \in OddPayloads : SessionCompOdd(c, payload)
    \/ sessions = [c \in Conns |-> NotAccepted] /\ NextWire

SpecAnswer == Init /\ [][NextAnswer]_vars

\* the two routes for chat completions with the clock: requests rejected
\* and admitted, their providers failing or not, at the times they come
NextSlots ==
    \/ NextBridge
    \/ \E d \in TickSteps : Tick(d) /\ UNCHANGED framed

SpecSlots == Init /\ [][NextSlots]_vars

\* one streaming relay of any transport, its provider and its client as
\* slow or as fast as they will
NextRelay ==
    \/ \E transport \in Transports : RelayStarts(transport)
    \/ \E chunk \in Fragments : RelayPulls(chunk)
    \/ WriteReturns
    \/ RelayLeaves

SpecRelay == Init /\ [][NextRelay]_vars

\* the AuthManager with all who call it: the handlers of the three
\* transports, and its four methods called directly
NextOwn ==
    \/ Next
    \/ \E t \in Tokens : AuthenticateCall(t) /\ UNCHANGED framed
    \/ \E t \in Tokens : GetUserInfoCall(t) /\ UNCHANGED framed
    \/ \E t \in Tokens, m \in Models : IsAuthorizedCall(t, m) /\ UNCHANGED framed
    \/ \E t \in Tokens : CheckRateLimitCall(t) /\ UNCHANGED framed

SpecOwn == Init /\ [][NextOwn]_vars

\* Authorization headers that come close to a Bearer token: the scheme in
\* lower case, a colon for the space, and the empty header
LooseHeaders ==
    { Some([prefix |-> "bearer ", rest |-> "dev-token"]),
      Some([prefix |-> "Bearer:", rest |-> "dev-token"]),
      Some([prefix |-> "", rest |-> ""]) }

\* a chat completion was asked for
ChatAsked == http.state # "none" /\ http.route = "chat"

\* the two HTTP routes that take a Bearer token, asked with any header: a
\* behaviour follows the chat completions of the server, or its model list
NextExtract ==
    \/ model_router = NoRouter /\ NextHttp
    \/ model_router = NoRouter /\ \E h \in LooseHeaders, m \in Models, s \in StreamFlags :
                                      HttpExchange(h, m, s)
    \/ ~ ChatAsked /\ NextModels
    \/ ~ ChatAsked /\ \E h \in LooseHeaders : HttpListModels(h)

SpecExtract == Init /\ [][NextExtract]_vars

\* the AuthManager loaded with any of the rate limits, its limiter called
\* directly
NextPolicy ==
    \/ \E d \in AuthTickSteps : AuthTick(d) /\ UNCHANGED framed
    \/ \E t \in Tokens : CheckRateLimitCall(t) /\ UNCHANGED framed

SpecPolicy == InitPolicy /\ [][NextPolicy]_vars

\* the parser of the rate limits called directly, as its unit tests call it
NextParse == \E s \in ParseInputs : ParseRateLimitCall(s) /\ UNCHANGED framed

SpecParse == InitPolicy /\ [][NextParse]_vars

\* the rate limiter alone, with the times of all the checks it allowed
NextSlide ==
    \/ \E d \in AuthTickSteps : AuthTick(d) /\ UNCHANGED framed
    \/ \E t \in Tokens : CheckRateLimitLogged(t)

SpecSlide == Init /\ [][NextSlide]_vars

\* ----------------------------------------------------- reading the state

\* a step that serves one request: the clock and the connection stand still
RequestStep == now' = now /\ tcp_open' = tcp_open /\ vars' # vars

\* a step that serves one request of the transport
Served(transport) == RequestStep /\ last'.transport = transport

\* the policy (N, period) of each token of users.yml
Policies ==
    [token \in DOMAIN LoadUsers(UsersYml) |->
        ParseRateLimit(LoadUsers(UsersYml)[token].rate_limit)]

Limit(token) == Policies[token][1]

Period(token) == Policies[token][2]

\* how many timestamps of the token's window are newer than at - period
Counted(token, at) ==
    Cardinality({ i \in 1..Len(Window(rate_limit_tracker, token)) :
                    Window(rate_limit_tracker, token)[i] > at - Period(token) })

\* the error of each admission step, per transport
ErrorOf(transport, step) ==
    IF transport = "http"
    THEN CASE step = "authenticate" -> "401" [] step = "rate_limit" -> "429"
           [] step = "authorize" -> "403" [] step = "provider" -> "404"
    ELSE CASE step = "authenticate" -> "authentication_error"
           [] step = "rate_limit" -> "rate_limit_error"
           [] step = "authorize" -> "authorization_error"
           [] step = "provider" -> "model_error"

\* ----------------------------------------------------------------- claims

\* C1: on POST /v1/chat/completions and on every WebSocket message that names
\* a model, the error reported is that of the first failing step in the order
\* authenticate, rate limit, authorize, provider lookup: an unknown token gets
\* the authentication error whatever else is wrong, a known token over its
\* limit gets the rate-limit error whatever the model, an unpermitted model
\* gets the authorization error even when it has no provider.
C1_FirstFailingStepReported ==
    [][ (Served("http") \/ Served("ws")) =>
          LET t == last'.transport
              token == last'.token
              model == last'.model
              known == token # None /\ The(token) \in DOMAIN users
              full == known /\ Counted(The(token), now) >= Limit(The(token))
              named == IF t = "ws" THEN ~ Falsy(model) ELSE model # None
              permitted == known /\ named
                           /\ InList(The(model), users[The(token)].permissions)
              routed == named /\ The(model) \in DOMAIN model_providers
          IN /\ ~ known => last'.outcome = ErrorOf(t, "authenticate")
             /\ known /\ full => last'.outcome = ErrorOf(t, "rate_limit")
             /\ known /\ ~ full /\ named /\ ~ permitted
                   => last'.outcome = ErrorOf(t, "authorize")
             /\ known /\ ~ full /\ permitted /\ ~ routed
                   => last'.outcome = ErrorOf(t, "provider")
      ]_vars

\* C1 witness: a known token whose window is full asked over WebSocket for a
\* model it is not permitted and that has no provider, and got the rate-limit
\* error
C1_Witness ==
    /\ last.transport = "ws"
    /\ last.token = Some("dev-token")
    /\ last.model = Some("llama3:8b")
    /\ last.outcome = "rate_limit_error"
    /\ Counted("dev-token", now) = Limit("dev-token")

\* C2: on every transport a provider's stream_completion is started only for
\* a token (HTTP, WebSocket) or a bound identity (TCP) that is in the user
\* table, for a model id in that user's permissions that has a provider.
C2_ProviderOnlyForAdmitted ==
    last.started =>
        LET who == IF last.transport = "tcp" THEN last.was ELSE last.token IN
        /\ who # None
        /\ The(who) \in DOMAIN users
        /\ last.model # None
        /\ InList(The(last.model), users[The(who)].permissions)
        /\ The(last.model) \in DOMAIN model_providers

\* C2 witness: a relay was started on the TCP session for its bound user
C2_Witness ==
    /\ last.started
    /\ last.transport = "tcp"
    /\ last.was = Some("dev-token")
    /\ last.model = Some("llama3")

\* C3: a COMP frame on an Authenticated TCP session goes through the rate
\* limit of the bound user: with the user's window full it is answered ERRO
\* and no provider is called, and an admitted COMP adds one timestamp to the
\* user's window.
C3_TcpCompRateLimited ==
    [][ (Served("tcp") /\ last'.kind = "COMP" /\ authenticated_user # None) =>
          LET token == The(authenticated_user).token
              kept == Fresh(Window(rate_limit_tracker, token),
                            now - Period(token))
          IN /\ Len(kept) >= Limit(token)
                   => ~ last'.started /\ last'.outcome # "CHNK"
             /\ last'.started
                   => Window(rate_limit_tracker', token) = Append(kept, now)
      ]_vars

\* every configured token's window holds at most its limit
WindowsBounded ==
    \A token \in DOMAIN users :
        Limit(token) >= 0 => Len(Window(rate_limit_tracker, token)) <= Limit(token)

\* C4: before and after every step a configured token's window holds no more
\* than its limit N >= 0, and when a request of any transport passes the rate limit the window holds
\* only timestamps newer than now - period, the last of them now, and at
\* most N of them.
C4_WindowWithinLimit ==
    [][ /\ WindowsBounded
        /\ WindowsBounded'
        /\ ( /\ Served("http") \/ Served("ws")
             /\ last'.token # None
             /\ The(last'.token) \in DOMAIN users
             /\ last'.outcome \notin { "401", "429", "authentication_error",
                                       "rate_limit_error" } )
           => LET token == The(last'.token)
                  window == Window(rate_limit_tracker', token)
              IN /\ Len(window) >= 1
                 /\ Len(window) <= Limit(token)
                 /\ window[Len(window)] = now
                 /\ \A i \in 1..Len(window) : window[i] > now - Period(token)
                 /\ Len(window) = Counted(token, now) + 1
      ]_vars

\* C4 witness: an HTTP request took the last slot of a window whose first
\* slot was taken earlier
C4_Witness ==
    /\ last.transport = "http"
    /\ last.token = Some("dev-token")
    /\ last.outcome \notin { "401", "429" }
    /\ Len(Window(rate_limit_tracker, "dev-token")) = Limit("dev-token")
    /\ Window(rate_limit_tracker, "dev-token")[2] = now
    /\ Window(rate_limit_tracker, "dev-token")[1] < now

\* a step that is a direct call of check_rate_limit for a configured token
CheckStep ==
    /\ Served("direct")
    /\ last'.kind = "check_rate_limit"
    /\ The(last'.token) \in DOMAIN users

\* C5: check_rate_limit for a configured token with policy (N, period) at
\* time now is the sliding-window step: the timestamps <= now - period leave
\* the window; with N or more left the answer is false and nothing is
\* appended; otherwise now is appended and the answer is true.  With 2 per
\* 60 s, checks at 0 and 1 are allowed, one at 2 is denied, one at 61 is
\* allowed.
C5_SlidingWindowStep ==
    [][ CheckStep =>
          LET token == The(last'.token)
              window == Window(rate_limit_tracker, token)
              remaining == SelectSeq(window,
                               LAMBDA t : ~ (t <= now - Period(token)))
          IN /\ IF Len(remaining) >= Limit(token)
                THEN /\ last'.outcome = "False"
                     /\ Window(rate_limit_tracker', token) = remaining
                ELSE /\ last'.outcome = "True"
                     /\ Window(rate_limit_tracker', token) = Append(remaining, now)
             /\ token = "dev-token" =>
                   /\ Limit(token) = 2 /\ Period(token) = 60
                   /\ (window = << >> /\ now = 0) => last'.outcome = "True"
                   /\ (window = << 0 >> /\ now = 1) => last'.outcome = "True"
                   /\ (window = << 0, 1 >> /\ now = 2) => last'.outcome = "False"
                   /\ (window = << 0, 1 >> /\ now = 61) => last'.outcome = "True"
      ]_vars

\* C5 witness: with 2 per minute, after allowed checks at 0 and 1 the check at
\* 2 was denied
C5_Witness ==
    /\ last.kind = "check_rate_limit"
    /\ last.token = Some("dev-token")
    /\ last.outcome = "False"
    /\ Window(rate_limit_tracker, "dev-token") = << 0, 1 >>
    /\ now = 2

\* C6 as stated: once a check of a token with limit N >= 1 was denied at time
\* t, every check of the token at a time t' >= t + period is allowed.
C6_AnyLaterCheckAllowed ==
    [][ ( /\ CheckStep
          /\ Limit(The(last'.token)) >= 1
          /\ denied_ever[The(last'.token)] # None
          /\ now >= The(denied_ever[The(last'.token)]) + Period(The(last'.token)) )
        => last'.outcome = "True"
      ]_vars

\* C6 amended: once a check of a token with limit N >= 1 was denied at time t,
\* a check of the token at a time t' >= t + period is allowed when no check
\* of the token was allowed in between; denied checks in between change
\* nothing.
C6_HealsAfterOnePeriod ==
    [][ ( /\ CheckStep
          /\ Limit(The(last'.token)) >= 1
          /\ denied_since[The(last'.token)] # None
          /\ now >= The(denied_since[The(last'.token)]) + Period(The(last'.token)) )
        => last'.outcome = "True"
      ]_vars

\* C6 witness: a token denied at 0 was allowed again at 60, one period later
C6_Witness ==
    /\ last.kind = "check_rate_limit"
    /\ last.token = Some("dev-token")
    /\ last.outcome = "True"
    /\ denied_ever["dev-token"] = Some(0)
    /\ denied_since["dev-token"] = None
    /\ Window(rate_limit_tracker, "dev-token") = << 60 >>
    /\ now = 60

\* C7: is_authorized(token, model_id) is true exactly when the token is a key
\* of the user table and the model id is, as a whole string, one of that
\* user's permissions.
C7_AuthorizedIffExactMember ==
    last.kind = "is_authorized" =>
        ( last.outcome = "True" <=>
            /\ The(last.token) \in DOMAIN users
            /\ \E i \in DOMAIN users[The(last.token)].permissions :
                   users[The(last.token)].permissions[i] = The(last.model) )

\* C7 witness: an id that only extends a permitted id was refused
C7_Witness ==
    /\ last.kind = "is_authorized"
    /\ last.token = Some("dev-token")
    /\ last.model = Some("llama3:8b")
    /\ last.outcome = "False"

\* C8: an AUTH frame whose token is not in the user table is answered
\* ARSP{success:false} and leaves the session's bound identity as it was.
C8_FailedAuthKeepsIdentity ==
    [][ ( /\ Served("tcp")
          /\ last'.kind = "AUTH"
          /\ ~ Falsy(last'.token)
          /\ The(last'.token) \notin DOMAIN users )
        => /\ last'.outcome = "ARSP:false"
           /\ authenticated_user' = authenticated_user
      ]_vars

\* C9: an AUTH frame is answered ARSP{success:true} only when the identity
\* bound afterwards is the user owning the presented token, whoever was bound
\* before; and a COMP for a model that is not in the bound user's permissions
\* is answered ERRO{UNAUTHORIZED_MODEL}.
C9_SuccessfulAuthRebinds ==
    [][ Served("tcp") =>
          /\ (last'.kind = "AUTH" /\ last'.outcome = "ARSP:true")
                => /\ ~ Falsy(last'.token)
                   /\ The(last'.token) \in DOMAIN users
                   /\ authenticated_user' = Some(users[The(last'.token)])
          /\ ( /\ last'.kind = "COMP"
               /\ authenticated_user # None
               /\ ~ Falsy(last'.model)
               /\ ~ InList(The(last'.model),
                           The(authenticated_user).permissions) )
                => last'.outcome = "ERRO:UNAUTHORIZED_MODEL"
      ]_vars

\* C9 witness: a session bound to one user was rebound to another by a
\* successful AUTH
C9_Witness ==
    /\ last.transport = "tcp"
    /\ last.kind = "AUTH"
    /\ last.outcome = "ARSP:true"
    /\ last.was = Some("dev-token")
    /\ last.token = Some("guest-token")
    /\ authenticated_user = Some(users["guest-token"])

\* C10: an AUTH frame without a token (the key absent, or present but empty)
\* is answered ARSP{success:false} and leaves the session's bound identity as
\* it was.
C10_TokenlessAuthNoChange ==
    [][ (Served("tcp") /\ last'.kind = "AUTH" /\ Falsy(last'.token))
        => /\ last'.outcome = "ARSP:false"
           /\ authenticated_user' = authenticated_user
      ]_vars

\* ------------------------------------------------- reading the sessions

\* a step in which connection c's coroutine took a frame of the type from
\* the reader and answered it (or started its relay)
Took(c, type) ==
    /\ sessions[c].state = "reading"
    /\ sessions'[c] # sessions[c]
    /\ sessions'[c].state # "closed"
    /\ The(sessions'[c].frame).type = type

\* the payload of the frame connection c took in this step
Taken(c) == The(sessions'[c].frame).payload

\* the field is there and is a non-empty string
Present(payload, key) ==
    /\ key \in DOMAIN payload
    /\ payload[key] # None
    /\ The(payload[key]) # ""

\* the fragments that are not empty, in order
NonEmpty(fragments) == SelectSeq(fragments, LAMBDA f : f # "")

\* one CHNK{content: f, final: false} per non-empty fragment, in order
ContentFrames(fragments) ==
    [i \in 1..Len(NonEmpty(fragments)) |->
        [type |-> "CHNK",
         payload |-> [content |-> NonEmpty(fragments)[i], final |-> FALSE]]]

\* the frames of the type among the frames written
OfType(written, type) == SelectSeq(written, LAMBDA f : f.type = type)

\* the answer to the frame read last is whole: nothing was read yet, or its
\* last frame is an ARSP, an ERRO or the CHNK with final: true
ResponseComplete(session) ==
    \/ session.frame = None
    \/ /\ session.written # << >>
       /\ session.provider # "streaming"
       /\ LET f == session.written[Len(session.written)] IN
          \/ f.type \in { "ARSP", "ERRO" }
          \/ f.type = "CHNK" /\ f.payload.final

\* connection c's coroutine takes a frame from the reader in this step: the
\* session changes to one that has a frame, is not closed, and whose
\* provider has neither yielded nor finished
ReadsFrame(c) ==
    /\ sessions'[c] # sessions[c]
    /\ sessions'[c].frame # None
    /\ sessions'[c].state # "closed"
    /\ sessions'[c].yielded = << >>
    /\ sessions'[c].provider \in { "idle", "streaming" }

\* C11: on a session with no bound identity every COMP frame, whatever its
\* payload, is answered with exactly one ERRO{NOT_AUTHENTICATED}: no provider
\* is called, no CHNK is written, the identity stays unbound and the session
\* goes on reading; the AUTH with a configured token that follows is answered
\* ARSP{success:true} and binds its user, and a COMP of that user for a
\* permitted, routed model then starts its relay.
C11_UnauthenticatedCompRefused ==
    [][ \A c \in Conns :
          /\ (Took(c, "COMP") /\ sessions[c].user = None) =>
                /\ sessions'[c].written = << CreateErrorResponse("NOT_AUTHENTICATED") >>
                /\ sessions'[c].provider = "idle"
                /\ sessions'[c].state = "reading"
                /\ sessions'[c].user = None
          /\ ( /\ Took(c, "AUTH")
               /\ sessions[c].written = << CreateErrorResponse("NOT_AUTHENTICATED") >>
               /\ Present(Taken(c), "token")
               /\ The(Taken(c)["token"]) \in DOMAIN users ) =>
                /\ sessions'[c].written = << CreateAuthResponse(TRUE) >>
                /\ sessions'[c].user = Some(users[The(Taken(c)["token"])])
                /\ sessions'[c].state = "reading"
          /\ ( /\ Took(c, "COMP")
               /\ sessions[c].written = << CreateAuthResponse(TRUE) >>
               /\ Present(Taken(c), "model")
               /\ InList(The(Taken(c)["model"]), The(sessions[c].user).permissions)
               /\ The(Taken(c)["model"]) \in DOMAIN model_providers ) =>
                /\ sessions'[c].state = "relaying"
                /\ sessions'[c].provider = "streaming"
      ]_vars

\* C11 witness: a COMP for a model nobody may use, sent before any AUTH, was
\* answered NOT_AUTHENTICATED and the session reads on
C11_Witness ==
    \E c \in Conns :
        /\ sessions[c].state = "reading"
        /\ sessions[c].user = None
        /\ sessions[c].frame =
               Some([type |-> "COMP", payload |-> "model" :> Some("llama3:8b")])
        /\ sessions[c].written = << CreateErrorResponse("NOT_AUTHENTICATED") >>
        /\ sessions[c].provider = "idle"

\* C12: a COMP frame on a session with a bound identity is checked in the
\* order model present, bound user permitted the model, provider routed, and
\* the first check that fails decides the one frame written: ERRO
\* {MISSING_MODEL}, else ERRO{UNAUTHORIZED_MODEL}, else ERRO{MODEL_NOT_FOUND};
\* a rejection writes no CHNK, calls no provider, keeps the identity and
\* leaves the session reading.
C12_CompChecksInOrder ==
    [][ \A c \in Conns :
          (Took(c, "COMP") /\ sessions[c].user # None) =>
             LET user == The(sessions[c].user)
                 present == Present(Taken(c), "model")
                 permitted == present /\ InList(The(Taken(c)["model"]), user.permissions)
                 routed == present /\ The(Taken(c)["model"]) \in DOMAIN model_providers
                 rejected == ~ present \/ ~ permitted \/ ~ routed
             IN /\ ~ present =>
                     sessions'[c].written = << CreateErrorResponse("MISSING_MODEL") >>
                /\ (present /\ ~ permitted) =>
                     sessions'[c].written = << CreateErrorResponse("UNAUTHORIZED_MODEL") >>
                /\ (present /\ permitted /\ ~ routed) =>
                     sessions'[c].written = << CreateErrorResponse("MODEL_NOT_FOUND") >>
                /\ rejected =>
                     /\ Len(sessions'[c].written) = 1
                     /\ OfType(sessions'[c].written, "CHNK") = << >>
                     /\ sessions'[c].provider = "idle"
                     /\ sessions'[c].user = sessions[c].user
                     /\ sessions'[c].state = "reading"
                /\ ~ rejected => sessions'[c].state = "relaying"
      ]_vars

\* C12 witness: a bound user asked for a model that is neither permitted to
\* it nor routed, and got UNAUTHORIZED_MODEL
C12_Witness ==
    \E c \in Conns :
        /\ sessions[c].state = "reading"
        /\ sessions[c].user = Some(users["guest-token"])
        /\ sessions[c].frame =
               Some([type |-> "COMP", payload |-> "model" :> Some("llama3:8b")])
        /\ sessions[c].written = << CreateErrorResponse("UNAUTHORIZED_MODEL") >>

\* C13: while the provider of an admitted COMP streams, the frames written
\* are one CHNK{content: f, final: false} per non-empty fragment yielded, in
\* the provider's order; when the stream ends normally exactly one CHNK
\* {content: "", final: true} follows and nothing else: no CHNK with final:
\* false is empty, and the final CHNK is the last frame of the request.
C13_RelayFramesInOrder ==
    \A c \in Conns :
        /\ sessions[c].provider = "streaming" =>
              sessions[c].written = ContentFrames(sessions[c].yielded)
        /\ sessions[c].provider = "ended" =>
              /\ sessions[c].written =
                     Append(ContentFrames(sessions[c].yielded),
                            CreateCompletionChunk("", TRUE))
              /\ \A i \in 1..Len(sessions[c].written) :
                    LET f == sessions[c].written[i] IN
                    /\ f.type = "CHNK"
                    /\ f.payload.final <=> i = Len(sessions[c].written)
                    /\ ~ f.payload.final => f.payload.content # ""

\* C13 witness: the provider yielded "Hello", then an empty fragment, and
\* ended: one content frame and the final frame were written
C13_Witness ==
    \E c \in Conns :
        /\ sessions[c].provider = "ended"
        /\ sessions[c].yielded = << "Hello", "" >>
        /\ sessions[c].written = << CreateCompletionChunk("Hello", FALSE),
                                    CreateCompletionChunk("", TRUE) >>

\* C14: when the provider raises after k >= 0 fragments, the frames written
\* for the request are the CHNK frames of the fragments produced so far and
\* then exactly one ERRO{GENERATION_ERROR}, with no CHNK marked final; the
\* session keeps its identity and goes on reading, and the frame read next
\* is dispatched as on any session: the same COMP is admitted again.
C14_ProviderFailureEndsRelay ==
    [][ \A c \in Conns :
          /\ (sessions[c].provider = "streaming" /\ sessions'[c].provider = "raised") =>
                /\ sessions'[c].written =
                       Append(ContentFrames(sessions[c].yielded),
                              CreateErrorResponse("GENERATION_ERROR"))
                /\ \A i \in 1..Len(sessions'[c].written) :
                      sessions'[c].written[i].type = "CHNK"
                          => ~ sessions'[c].written[i].payload.final
                /\ sessions'[c].user = sessions[c].user
                /\ sessions'[c].state = "reading"
          /\ sessions[c].provider = "raised" =>
                /\ sessions[c].state # "relaying"
                /\ Len(OfType(sessions[c].written, "ERRO")) = 1
          /\ ( /\ sessions[c].provider = "raised"
               /\ Took(c, "COMP")
               /\ sessions'[c].frame = sessions[c].frame ) =>
                /\ sessions'[c].state = "relaying"
                /\ sessions'[c].written = << >>
                /\ sessions'[c].user = sessions[c].user
      ]_vars

\* C14 witness: the provider raised after one fragment: its CHNK and the
\* ERRO were written and the session reads on
C14_Witness ==
    \E c \in Conns :
        /\ sessions[c].provider = "raised"
        /\ sessions[c].state = "reading"
        /\ sessions[c].user # None
        /\ sessions[c].written = << CreateCompletionChunk(" world", FALSE),
                                    CreateErrorResponse("GENERATION_ERROR") >>

\* C15: a session takes a frame from the reader only when the answer to the
\* frame before is whole (its ARSP, its ERRO, or its CHNK frames up to the
\* final one or the ERRO that ends them), so one request at most is in flight
\* on a connection and the frames of two requests never mix; and a step of
\* one connection changes no other connection's session.
C15_OneRequestAtATime ==
    [][ \A c \in Conns :
          /\ ReadsFrame(c) =>
                /\ ResponseComplete(sessions[c])
                /\ sessions[c].provider # "streaming"
          /\ sessions'[c] # sessions[c] =>
                \A d \in Conns \ { c } : sessions'[d] = sessions[d]
          /\ sessions'[c].state = "relaying" => sessions'[c].provider = "streaming"
      ]_vars

\* C15 witness: one connection is in the middle of a relay while another,
\* accepted beside it, has had a whole relay of its own
C15_Witness ==
    /\ sessions[1].state = "relaying"
    /\ sessions[1].written = << CreateCompletionChunk("Hello", FALSE) >>
    /\ sessions[2].state = "reading"
    /\ sessions[2].provider = "ended"
    /\ sessions[2].yielded = << "Hello", " world" >>

\* --------------------------------------------------- reading the codec

\* every character of the str is ASCII
IsAscii(s) == \A i \in 1..Len(s) : s[i][1] <= 127

\* the str without the characters of the set at its end
RECURSIVE WithoutTrailing(_, _)
WithoutTrailing(s, codes) ==
    IF s # << >> /\ s[Len(s)][1] \in codes
    THEN WithoutTrailing(SubSeq(s, 1, Len(s) - 1), codes)
    ELSE s

\* a str of the JSON value holds a surrogate code point
RECURSIVE HasSurrogate(_)
HasSurrogate(value) ==
    LET surrogate(s) == \E i \in 1..Len(s) : s[i][1] >= 55296 /\ s[i][1] <= 57343 IN
    IF "str" \in DOMAIN value THEN surrogate(value.str)
    ELSE IF "arr" \in DOMAIN value
    THEN \E i \in 1..Len(value.arr) : HasSurrogate(value.arr[i])
    ELSE IF "obj" \in DOMAIN value
    THEN \E i \in 1..Len(value.obj) :
            surrogate(value.obj[i][1]) \/ HasSurrogate(value.obj[i][2])
    ELSE FALSE

\* the payload length the header of the stream declares, read as a
\* big-endian number from its bytes five to eight
Declared(stream) ==
    At(stream, 5) * 16777216 + At(stream, 6) * 65536 + At(stream, 7) * 256
        + At(stream, 8)

\* unpack_message_from_stream was called on a reader holding a whole header
HeaderRead == codec.op \in { "unpack", "read" } /\ Size(codec.stream) >= 8

\* C19 as stated: unpack fails with the size violation for every declared
\* payload length above 10 * 1024 * 1024, having read the 8 header bytes and
\* no byte of the payload; a declared length of exactly 10 * 1024 * 1024 is
\* not rejected for its size.
C19_OversizeRejectedAtHeader ==
    HeaderRead =>
        /\ Declared(codec.stream) > 10 * 1024 * 1024 =>
              /\ codec.result.status = "ValueError"
              /\ codec.result.at = "size"
              /\ codec.result.rest = Drop(codec.stream, 8)
        /\ Declared(codec.stream) <= 10 * 1024 * 1024 => codec.result.at # "size"

\* C19 amended: when the four type bytes are ASCII, unpack fails with the
\* size violation for every declared payload length above 10 * 1024 * 1024,
\* having read the 8 header bytes and no byte of the payload; a declared
\* length of exactly 10 * 1024 * 1024 is not rejected for its size; when a
\* type byte is not ASCII unpack fails on the type, having read 4 bytes.
C19_OversizeRejectedAfterAsciiType ==
    HeaderRead =>
        /\ ( /\ IsAscii(Take(codec.stream, 4))
             /\ Declared(codec.stream) > 10 * 1024 * 1024 ) =>
              /\ codec.result.status = "ValueError"
              /\ codec.result.at = "size"
              /\ codec.result.rest = Drop(codec.stream, 8)
        /\ Declared(codec.stream) <= 10 * 1024 * 1024 => codec.result.at # "size"
        /\ ~ IsAscii(Take(codec.stream, 4)) =>
              /\ codec.result.status = "ValueError"
              /\ codec.result.at = "type"
              /\ codec.result.rest = Drop(codec.stream, 4)

\* C19 witness: a header declaring 10 MiB + 1 with bytes behind it was
\* refused for its size, and the bytes behind the header are all still there
C19_Witness ==
    /\ codec.op = "read"
    /\ codec.stream = Cat(Cat(Text(<< "C", "O", "M", "P" >>), Codes(<< 0, 160, 0, 1 >>)),
                          Text(<< "{", "}", "A", "U", "T", "H" >>))
    /\ codec.result.status = "ValueError"
    /\ codec.result.at = "size"
    /\ codec.result.rest = Text(<< "{", "}", "A", "U", "T", "H" >>)

\* C20 as stated: for every type code of at most 4 characters and every
\* payload object, pack succeeds and unpack of the bytes it made returns the
\* type without its trailing spaces and the payload, and leaves in the
\* reader exactly the bytes that followed the frame.
C20_RoundTripEveryType ==
    /\ (codec.op = "pack" /\ Size(codec.msg_type) <= 4) => codec.packed.raised = "none"
    /\ codec.op = "unpack" =>
          /\ codec.result.status = "ok"
          /\ codec.result.msg_type = WithoutTrailing(codec.msg_type, { 32 })
          /\ codec.result.payload = codec.payload
          /\ codec.result.rest = codec.tail

\* C20 amended: for every type code of at most 4 ASCII characters and every
\* payload object whose strings hold no lone surrogate, pack succeeds; and
\* when the JSON text it made is at most 10 MiB of UTF-8, unpack of its bytes
\* returns the type without its trailing whitespace and the payload, and
\* leaves in the reader exactly the bytes that followed the frame; the empty
\* object comes back as the empty object.
C20_RoundTripAsciiWithinLimit ==
    /\ ( /\ codec.op = "pack"
         /\ Size(codec.msg_type) <= 4
         /\ IsAscii(codec.msg_type)
         /\ ~ HasSurrogate(codec.payload) ) => codec.packed.raised = "none"
    /\ (codec.op = "unpack" /\ Size(codec.packed.bytes) - 8 <= 10 * 1024 * 1024) =>
          /\ codec.result.status = "ok"
          /\ codec.result.msg_type = WithoutTrailing(codec.msg_type, Whitespace)
          /\ codec.result.payload = codec.payload
          /\ codec.result.rest = codec.tail
          /\ Size(codec.stream) - Size(codec.result.rest) = Size(codec.packed.bytes)

\* C20 witness: a two-character type and a payload whose JSON text is
\* exactly 10 MiB long came back, and the start of the next frame is what is
\* left in the reader
C20_Witness ==
    /\ codec.op = "unpack"
    /\ codec.msg_type = Text(<< "A", "B" >>)
    /\ codec.payload = Padded(10 * 1024 * 1024 - 11)
    /\ Size(codec.packed.bytes) = 8 + 10 * 1024 * 1024
    /\ codec.tail = Text(<< "A", "U", "T", "H" >>)
    /\ codec.result.status = "ok"
    /\ codec.result.msg_type = codec.msg_type
    /\ codec.result.payload = codec.payload
    /\ codec.result.rest = codec.tail

\* ---------------------------------------------- reading the connection

\* a step in which _handle_client comes back from unpack_message_from_stream:
\* bytes leave the reader, or the connection is closed from the reading state
WireRead ==
    /\ conn.state = "reading"
    /\ conn'.state # "listening"
    /\ Size(conn'.inbox) < Size(conn.inbox) \/ conn'.state = "closed"

\* the header at the front of the bytes has an ASCII type and declares a
\* payload length within the limit
HeaderWithin(stream) ==
    /\ Size(stream) >= 8
    /\ IsAscii(Take(stream, 4))
    /\ At(stream, 5) = 0
    /\ Declared(stream) <= MaxPayloadLength

\* where the bytes end short of the frame being read: in the type, in the
\* length, in the payload, or "none"
CutShort(stream) ==
    IF Size(stream) < 4 THEN "type"
    ELSE IF Size(stream) < 8 /\ IsAscii(Take(stream, 4)) THEN "length"
    ELSE IF HeaderWithin(stream) /\ Size(stream) - 8 < Declared(stream) THEN "payload"
    ELSE "none"

\* the well-formed frames of the clients
WellFormed ==
    { [msg_type |-> AuthType, payload |-> [obj |-> << << TokenKey, [str |-> DevToken] >> >>]],
      [msg_type |-> CompType, payload |-> [obj |-> << << ModelKey, [str |-> Llama3] >> >>]],
      [msg_type |-> Text(<< "P", "I", "N", "G" >>), payload |-> [obj |-> << >>]] }

\* the bytes begin with the frame
BeginsWith(stream, frame) ==
    LET packed == PackMessage(frame.msg_type, frame.payload).bytes IN
    Size(stream) >= Size(packed) /\ Take(stream, Size(packed)) = packed

\* the last read failed on the content of a payload it had read whole
PayloadRefused ==
    /\ conn.state # "listening"
    /\ conn.read.status = "ValueError"
    /\ conn.read.at = "payload"

\* C16 as stated: every failure of unpack_message_from_stream that is not a
\* failure on the content of the payload closes the TCP connection; after a
\* header that declares more than 10 MiB the session is closed and reads no
\* further frame.
C16_FramingFailureCloses ==
    [][ (/\ WireRead
         /\ conn'.read.status # "ok"
         /\ ~ (conn'.read.status = "ValueError" /\ conn'.read.at = "payload"))
        => conn'.state = "closed" ]_vars

\* C17: when the stream has ended and the bytes in the reader stop short of
\* the frame being read (in its type, in its length or in its payload), the
\* step of the session closes it: no frame is written or dispatched for the
\* partial frame, the identity is untouched, the failure names the boundary,
\* and nothing leaves the closed state.
C17_ShortReadCloses ==
    [][ /\ (/\ conn.state = "reading"
            /\ conn.eof
            /\ CutShort(conn.inbox) # "none"
            /\ conn' # conn)
           => /\ conn'.state = "closed"
              /\ conn'.read.status = "IncompleteReadError"
              /\ conn'.read.at = CutShort(conn.inbox)
              /\ conn'.written = << >>
              /\ conn'.user = conn.user
        /\ (conn.state = "closed" => conn' = conn) ]_vars

\* a bound session was closed by a stream that ended inside a payload
C17_Witness ==
    /\ conn.state = "closed"
    /\ conn.read.status = "IncompleteReadError"
    /\ conn.read.at = "payload"
    /\ conn.user # None

\* C18: a frame whose declared payload was read whole but is not UTF-8 or
\* not JSON is answered with the single frame ERRO{INVALID_FORMAT}; the
\* session stays in its reading state with the same identity, the reader
\* stands at the byte after that payload, and a well-formed frame that
\* follows is the next frame read, whole and with nothing left out.
C18_BadPayloadRecoverable ==
    [][ /\ (WireRead /\ conn'.read.status = "ValueError" /\ conn'.read.at = "payload")
           => /\ HeaderWithin(conn.inbox)
              /\ conn'.written = << CreateErrorResponse("INVALID_FORMAT") >>
              /\ conn'.state = "reading"
              /\ conn'.user = conn.user
              /\ conn'.inbox = Drop(conn.inbox, 8 + Declared(conn.inbox))
        /\ \A frame \in WellFormed :
              (PayloadRefused /\ BeginsWith(conn.inbox, frame) /\ WireRead)
              => /\ conn'.read.status = "ok"
                 /\ conn'.read.msg_type = frame.msg_type
                 /\ conn'.read.payload = frame.payload
                 /\ conn' = OnFrame(conn, conn'.read)
                 /\ conn'.inbox =
                        Drop(conn.inbox,
                             Size(PackMessage(frame.msg_type, frame.payload).bytes)) ]_vars

\* a bound session has answered a payload that is not JSON and a permitted
\* COMP frame is next in the reader
C18_Witness ==
    /\ PayloadRefused
    /\ conn.state = "reading"
    /\ conn.user # None
    /\ conn.written = << CreateErrorResponse("INVALID_FORMAT") >>
    /\ \E frame \in WellFormed : frame.msg_type = CompType /\ BeginsWith(conn.inbox, frame)

\* --------------------------------------------------- reading pack_message

\* pack_message was called and what it returned is still recorded
Packed == codec.op \in { "pack", "unpack" }

\* the bytes are a frame of the type code and the payload: four type bytes
\* (the code and spaces after it), the number of payload bytes as a
\* big-endian number of four bytes, and the JSON text of the payload in UTF-8
IsFrameOf(bytes, msg_type, payload) ==
    /\ Size(bytes) >= 8
    /\ Take(bytes, 4) = Cat(msg_type, Run(32, 4 - Size(msg_type)))
    /\ At(bytes, 5) < 128
    /\ Declared(bytes) = Size(bytes) - 8
    /\ Drop(bytes, 8) = Utf8Encode(JsonDumps(payload)).bytes

\* C21 as stated: pack fails with a caller error and no bytes for every type
\* code of more than 4 characters; for every type code of 0 to 4 characters
\* it succeeds with 4 type bytes (the code padded with spaces on the right),
\* the 4-byte big-endian count of the payload bytes, and the payload bytes.
C21_PackFrameShape ==
    Packed =>
        IF Size(codec.msg_type) > 4
        THEN codec.packed.raised = "ValueError" /\ codec.packed.bytes = << >>
        ELSE /\ codec.packed.raised = "none"
             /\ IsFrameOf(codec.packed.bytes, codec.msg_type, codec.payload)

\* C21 amended: pack fails with ValueError and no bytes for every type code
\* of more than 4 characters; for a type code of 0 to 4 ASCII characters and
\* a payload whose strings hold no lone surrogate it succeeds with the frame
\* described; for a shorter code with a character that is not ASCII, or a
\* payload with a lone surrogate, it fails with UnicodeEncodeError and no bytes.
C21_PackFrameShapeAscii ==
    Packed =>
        IF Size(codec.msg_type) > 4
        THEN codec.packed.raised = "ValueError" /\ codec.packed.bytes = << >>
        ELSE IF IsAscii(codec.msg_type) /\ ~ HasSurrogate(codec.payload)
        THEN /\ codec.packed.raised = "none"
             /\ IsFrameOf(codec.packed.bytes, codec.msg_type, codec.payload)
        ELSE codec.packed.raised = "UnicodeEncodeError" /\ codec.packed.bytes = << >>

\* a two-character code was packed with a payload whose text has fewer
\* characters than bytes: two spaces follow the code and the length counts
\* the bytes
C21_Witness ==
    /\ codec.op = "pack"
    /\ codec.msg_type = Text(<< "A", "B" >>)
    /\ codec.packed.raised = "none"
    /\ Take(codec.packed.bytes, 4) = Text(<< "A", "B", " ", " " >>)
    /\ Declared(codec.packed.bytes) = Size(codec.packed.bytes) - 8
    /\ Size(JsonDumps(codec.payload)) < Declared(codec.packed.bytes)

\* the type code of the frame at the front of the bytes, as the session
\* compares it: the four type bytes without the whitespace at their end
TypeCodeOf(stream) == WithoutTrailing(Take(stream, 4), Whitespace)

\* C22: a frame that is read whole and whose type code is neither AUTH nor
\* COMP (CHNK, ERRO, the empty code and unknown codes among them) is answered
\* with the single frame ERRO{UNKNOWN_MESSAGE_TYPE}; the identity of the
\* session is the one it had, whatever the payload holds, and the session
\* goes on reading at the byte after the frame.
C22_OtherTypeAnswered ==
    [][ (/\ WireRead
         /\ conn'.read.status = "ok"
         /\ TypeCodeOf(conn.inbox) \notin { AuthType, CompType })
        => /\ HeaderWithin(conn.inbox)
           /\ conn'.written = << CreateErrorResponse("UNKNOWN_MESSAGE_TYPE") >>
           /\ conn'.user = conn.user
           /\ conn'.state = "reading"
           /\ conn'.inbox = Drop(conn.inbox, 8 + Declared(conn.inbox)) ]_vars

\* a session bound to the developer has answered a CHNK frame that carries
\* the guest's token
C22_Witness ==
    /\ conn.state = "reading"
    /\ conn.read.status = "ok"
    /\ conn.read.msg_type = Text(<< "C", "H", "N", "K" >>)
    /\ JsonGet(conn.read.payload, TokenKey) = Some([str |-> GuestToken])
    /\ conn.written = << CreateErrorResponse("UNKNOWN_MESSAGE_TYPE") >>
    /\ conn.user # None
    /\ The(conn.user).token = "dev-token"

\* --------------------------------------------------- reading the router

\* load_models has returned
Loaded == model_router.state = "loaded"

\* the provider of the nth entry of the list could be constructed
Built(nth) ==
    CreateProviderIn(model_router.env, model_router.cfg[nth].provider, nth) # None

\* the entries of the list that configure the id
EntriesOf(model_id) ==
    { nth \in 1..Len(model_router.cfg) : model_router.cfg[nth].id = model_id }

\* the id is unavailable: not listed, not available, and routed nowhere
Unavailable(model_id) ==
    /\ \A i \in 1..Len(GetAvailableModels(model_router)) :
           GetAvailableModels(model_router)[i] # model_id
    /\ ~ IsModelAvailable(model_router, model_id)
    /\ GetProviderFor(model_router, model_id) = None

\* C28 as stated: after load_models, the id of every entry whose provider
\* could not be constructed is absent from get_available_models(), not
\* available and without a provider, and get_model_config(id) returns the
\* raw configuration of that entry.
C28_UnbuiltEntryUnavailable ==
    Loaded =>
        \A nth \in 1..Len(model_router.cfg) :
            ~ Built(nth) =>
                /\ Unavailable(model_router.cfg[nth].id)
                /\ GetModelConfig(model_router, model_router.cfg[nth].id)
                       = Some(model_router.cfg[nth])

\* C28 amended: after load_models, every configured id none of whose entries
\* had a provider constructed is absent from get_available_models(), not
\* available and without a provider, and get_model_config(id) returns the
\* raw configuration of the last entry with that id.
C28_UnbuiltIdUnavailable ==
    Loaded =>
        \A nth \in 1..Len(model_router.cfg) :
            LET model_id == model_router.cfg[nth].id IN
            /\ (\A other \in EntriesOf(model_id) : ~ Built(other))
                   => Unavailable(model_id)
            /\ (\A other \in EntriesOf(model_id) : other <= nth)
                   => GetModelConfig(model_router, model_id) = Some(model_router.cfg[nth])

\* a list with a model that was built and, after it, one whose provider needs
\* the key that is not set: the second is configured and unavailable
C28_Witness ==
    /\ Loaded
    /\ Len(model_router.cfg) = 2
    /\ model_router.cfg[1] = [id |-> "llama3", provider |-> "ollama"]
    /\ model_router.cfg[2] = [id |-> "gpt-4o", provider |-> "OpenAI"]
    /\ model_router.env.api_key = None
    /\ GetAvailableModels(model_router) = << "llama3" >>
    /\ Unavailable("gpt-4o")
    /\ GetModelConfig(model_router, "gpt-4o") = Some(model_router.cfg[2])

\* the first entry of the id whose provider was constructed (0 when none was)
FirstBuilt(model_id) ==
    IF \E nth \in EntriesOf(model_id) : Built(nth)
    THEN CHOOSE nth \in EntriesOf(model_id) :
             Built(nth) /\ \A other \in EntriesOf(model_id) : Built(other) => nth <= other
    ELSE 0

\* C29: after load_models, get_available_models() lists exactly the ids for
\* which get_provider_for_model returns a handle, each once, in the order in
\* which their entries (the first built one of each id) stand in the list;
\* is_model_available(id) holds exactly for the ids listed; and every id
\* listed has a configuration stored.
C29_AvailableListExact ==
    Loaded =>
        LET available == GetAvailableModels(model_router) IN
        /\ \A model_id \in { e.id : e \in ModelEntries } \cup { "llama3:8b" } :
               /\ (\E i \in 1..Len(available) : available[i] = model_id)
                      <=> GetProviderFor(model_router, model_id) # None
               /\ IsModelAvailable(model_router, model_id)
                      <=> \E i \in 1..Len(available) : available[i] = model_id
        /\ \A i, j \in 1..Len(available) :
               i < j => /\ available[i] # available[j]
                        /\ FirstBuilt(available[i]) < FirstBuilt(available[j])
        /\ \A i \in 1..Len(available) :
               /\ FirstBuilt(available[i]) > 0
               /\ GetModelConfig(model_router, available[i]) # None

\* three entries, the second unbuilt: the two built ids are listed in the
\* order of the list
C29_Witness ==
    /\ Loaded
    /\ Len(model_router.cfg) = 3
    /\ model_router.cfg[1].id = "gpt-4o" /\ Built(1)
    /\ model_router.cfg[2].id = "gpt-4o" /\ ~ Built(2)
    /\ model_router.cfg[3].id = "llama3" /\ Built(3)
    /\ GetAvailableModels(model_router) = << "gpt-4o", "llama3" >>

\* ------------------------------------------------ reading GET /v1/models

\* GET /v1/models was answered
ModelsListed == http.state = "done" /\ http.route = "models"

\* the token the request carried as a Bearer token, or None
BearerOf(authorization) ==
    IF authorization # NoHeader /\ The(authorization).prefix = "Bearer "
    THEN Some(The(authorization).rest)
    ELSE None

\* the positions of the available ids that are in the permissions of the token
PermittedAt(token) ==
    { i \in 1..Len(GetAvailableModels(model_router)) :
          InList(GetAvailableModels(model_router)[i], users[token].permissions) }

\* C30: GET /v1/models with a known token returns exactly the ids that are
\* available and in the caller's permissions, each once and in the order of
\* availability; with a token that is not known it returns 401 and no list.
C30_ModelsListFiltered ==
    (ModelsListed /\ BearerOf(http.authorization) # None) =>
        LET token == The(BearerOf(http.authorization))
            available == GetAvailableModels(model_router)
        IN IF token \in DOMAIN users
           THEN /\ http.status = "200"
                /\ http.data # None
                /\ Len(The(http.data)) = Cardinality(PermittedAt(token))
                /\ \A i \in PermittedAt(token) :
                       The(http.data)[Cardinality({ j \in PermittedAt(token) : j <= i })]
                           = available[i]
           ELSE http.status = "401" /\ http.data = None

\* three models are available, the one in the middle outside the
\* developer's permissions: the developer is listed the other two in order
C30_Witness ==
    /\ ModelsListed
    /\ BearerOf(http.authorization) = Some("dev-token")
    /\ GetAvailableModels(model_router) = << "gpt-4o", "mistral", "llama3" >>
    /\ http.data = Some(<< "gpt-4o", "llama3" >>)

\* ------------------------------------ reading the HTTP chat completions

\* a chat completion was admitted with stream true, or with stream false
\* or absent
StreamingExchange ==
    http.state # "none" /\ http.route = "chat" /\ http.provider # "idle"
        /\ http.stream = Some(TRUE)

BufferedExchange ==
    http.state # "none" /\ http.route = "chat" /\ http.provider # "idle"
        /\ http.stream # Some(TRUE)

\* C23: when the provider yielded f1..fn and ended normally, the SSE body of
\* a streamed completion is one content chunk per non-empty fragment, in
\* order, with the fragment as delta.content and no finish_reason, then one
\* terminal chunk with an empty delta and finish_reason "stop", then the
\* [DONE] line, and nothing after it.
C23_StreamBodyShape ==
    (StreamingExchange /\ http.provider = "ended") =>
        LET sent == NonEmpty(http.yielded)
            n == Len(sent)
        IN /\ http.status = "200"
           /\ Len(http.body) = n + 2
           /\ \A i \in 1..n :
                  /\ http.body[i].data = "chat.completion.chunk"
                  /\ http.body[i].content = Some(sent[i])
                  /\ http.body[i].finish_reason = None
           /\ http.body[n + 1].data = "chat.completion.chunk"
           /\ http.body[n + 1].content = None
           /\ http.body[n + 1].finish_reason = Some("stop")
           /\ http.body[n + 2].data = "[DONE]"
           /\ http.state = "done"

\* the provider yielded "Hello" and " world" and ended: two content chunks,
\* one terminal chunk and the end marker
C23_Witness ==
    /\ StreamingExchange
    /\ http.provider = "ended"
    /\ http.yielded = << "Hello", " world" >>
    /\ Len(http.body) = 4
    /\ http.body[2].content = Some(" world")
    /\ http.body[4] = DoneLine

\* the fragments of the list, one after the other
RECURSIVE Joined(_)
Joined(fragments) ==
    IF fragments = << >> THEN "" ELSE Head(fragments) \o Joined(Tail(fragments))

\* C24: a buffered completion returns one response whose content is the
\* concatenation, in order, of every fragment the provider yielded; when the
\* provider fails before finishing, before its first fragment or after some,
\* the request fails with status 500 and no response with the fragments
\* produced so far is returned, then or while the provider runs.
C24_BufferedAllOrNothing ==
    BufferedExchange =>
        /\ http.body = << >>
        /\ http.provider = "ended" =>
               http.status = "200" /\ http.content = Some(Joined(http.yielded))
        /\ http.provider = "raised" => http.status = "500" /\ http.content = None
        /\ http.provider = "streaming" => http.status = "pending" /\ http.content = None

\* the provider fails after "Hello" and " world": status 500, no content
C24_Witness ==
    /\ BufferedExchange
    /\ http.provider = "raised"
    /\ http.yielded = << "Hello", " world" >>
    /\ http.status = "500"
    /\ http.content = None

\* the provider yields "Hello" and " world" and ends: the content is "Hello world"
C24_WitnessJoined ==
    /\ BufferedExchange
    /\ http.provider = "ended"
    /\ http.content = Some("Hello world")

\* ------------------------------------- reading a failing streamed answer

\* the WebSocket relays, or relayed, the answer to a message
WsRelayed == ws.state # "none" /\ ws.provider # "idle"

\* C25: when the provider fails during a streamed answer, the SSE body of
\* the HTTP exchange, and the messages of the WebSocket turn, are the content
\* chunks of the non-empty fragments yielded before the failure, each once
\* and in order, then exactly one error unit, and nothing else: no terminal
\* chunk, no [DONE] line, no second error.
C25_StreamFailureOneError ==
    /\ (StreamingExchange /\ http.provider = "raised") =>
           LET sent == NonEmpty(http.yielded) IN
           /\ Len(http.body) = Len(sent) + 1
           /\ \A i \in 1..Len(sent) :
                  /\ http.body[i].data = "chat.completion.chunk"
                  /\ http.body[i].content = Some(sent[i])
                  /\ http.body[i].finish_reason = None
           /\ http.body[Len(sent) + 1].data = "error"
           /\ http.state = "done"
    /\ (WsRelayed /\ ws.provider = "raised" /\ ws.state = "open") =>
           LET sent == NonEmpty(ws.yielded) IN
           /\ Len(ws.sent) = Len(sent) + 1
           /\ \A i \in 1..Len(sent) :
                  /\ ws.sent[i].object = "chat.completion.chunk"
                  /\ ws.sent[i].content = Some(sent[i])
                  /\ ws.sent[i].finish_reason = None
           /\ ws.sent[Len(sent) + 1].object = "error"
           /\ ws.sent[Len(sent) + 1].error = Some("generation_error")

\* the provider fails after "Hello" on the WebSocket: one chunk, one error
C25_Witness ==
    /\ WsRelayed
    /\ ws.provider = "raised"
    /\ ws.state = "open"
    /\ ws.yielded = << "Hello", "" >>
    /\ Len(ws.sent) = 2

\* the provider fails after "Hello" on HTTP: one chunk, one error payload
C25_WitnessSse ==
    /\ StreamingExchange
    /\ http.provider = "raised"
    /\ http.yielded = << "Hello" >>
    /\ http.body = << StreamChoice(Some("Hello"), None), StreamError >>

\* --------------------------------- reading the turns of a WebSocket

\* the loop answered, or answers, a message, and no exception ended it
WsAnswered == ws.state # "none" /\ ws.data # None /\ ws.left = None

\* the token and the model the message of this turn carries
WsToken == Get(The(ws.data), "token")

WsModel == Get(The(ws.data), "model")

\* the token of this turn's message is missing, empty or not a known one
WsTokenRefused == Falsy(WsToken) \/ Authenticate(users, The(WsToken)) = None

\* the error messages among those sent in this turn
WsErrorsSent == { i \in 1..Len(ws.sent) : ws.sent[i].object = "error" }

TcpWriteFailed(c) ==
    sessions[c].state = "relaying" /\ sessions'[c].state \notin { "relaying", "reading" }

\* a send of the relay on the WebSocket failed in this step
WsSendFailed == ws.state = "relaying" /\ ws'.left # None

\* the handler of the WebSocket has returned
WsReturned == ws.state # "none" /\ ws.left # None

\* C27: when a write fails while a completion is relayed, on TCP the session
\* is Closed with its writer closed, on the WebSocket the socket is out of
\* the active set, in both cases without an exception leaving the handler;
\* nothing more is delivered, and from then on the handler has terminated:
\* no further fragment is pulled from the provider.
C27_DisconnectReleases ==
    [][ /\ \A c \in Conns :
            /\ TcpWriteFailed(c) =>
                   /\ sessions'[c].state = "closed"
                   /\ sessions'[c].yielded = sessions[c].yielded
                   /\ sessions'[c].written = sessions[c].written
            /\ sessions[c].state = "closed" => sessions'[c] = sessions[c]
        /\ WsSendFailed =>
               /\ ws'.state = "closed"
               /\ ~ ws'.active
               /\ ws'.sent = ws.sent
               /\ Len(ws'.yielded) <= Len(ws.yielded) + 1
        /\ WsReturned => (ws.state = "closed" /\ ~ ws.active /\ ws' = ws) ]_vars

\* the WebSocket client was lost when " world" was to be sent, by an
\* exception that is not a WebSocketDisconnect: "Hello" was delivered, the
\* handler returned and the socket is out of the active set
C27_Witness ==
    /\ WsReturned
    /\ ws.left = Some("RuntimeError")
    /\ ws.yielded = << "Hello", " world" >>
    /\ ws.sent = << WsChunk(Some("Hello"), None) >>
    /\ ws.state = "closed"
    /\ ~ ws.active

\* the TCP client was lost after "Hello" was relayed: the session is closed
\* with the provider's stream left where it stood
C27_WitnessTcp ==
    /\ sessions[1].state = "closed"
    /\ sessions[1].provider = "streaming"
    /\ sessions[1].yielded = << "Hello" >>

\* ------------------------------------------- reading the rate limits

\* the positions of the "/" in the string
Slashes(s) == { i \in 1..Len(s) : s[i] = "/" }

\* the string is written <N>/<unit>, N an integer in decimal digits with an
\* optional sign
WrittenAsRate(s) ==
    /\ Cardinality(Slashes(s)) = 1
    /\ LET at == CHOOSE i \in Slashes(s) : TRUE
           digits == { i \in 1..(at - 1) : s[i] \in Digits }
       IN /\ digits # { }
          /\ \A i \in 1..(at - 1) : i \in digits \/ (i = 1 /\ s[i] \in { "+", "-" })

\* the unit written in a string written <N>/<unit>
UnitOf(s) == SubSeq(s, (CHOOSE i \in Slashes(s) : TRUE) + 1, Len(s))

\* the number written in a string written <N>/<unit>
RECURSIVE Number(_)
Number(digits) ==
    IF digits = << >> THEN 0
    ELSE 10 * Number(SubSeq(digits, 1, Len(digits) - 1))
             + DigitValue(digits[Len(digits)])

LimitOf(s) ==
    LET n == SubSeq(s, 1, (CHOOSE i \in Slashes(s) : TRUE) - 1) IN
    IF n[1] = "-" THEN 0 - Number(Tail(n))
    ELSE IF n[1] = "+" THEN Number(Tail(n))
    ELSE Number(n)

\* the seconds of the four units
UnitSeconds(unit) ==
    CASE unit = << "s", "e", "c", "o", "n", "d" >> -> Some(1)
      [] unit = << "m", "i", "n", "u", "t", "e" >> -> Some(60)
      [] unit = << "h", "o", "u", "r" >> -> Some(3600)
      [] unit = << "d", "a", "y" >> -> Some(86400)
      [] OTHER -> None

\* _parse_rate_limit was called
ParseCalled == last.kind = "_parse_rate_limit"

\* C39: _parse_rate_limit maps N/second, N/minute, N/hour and N/day to
\* (N, 1), (N, 60), (N, 3600) and (N, 86400); a string that does not split
\* into exactly two parts around "/", or whose N is not an integer, yields
\* (10, 60); N/<unknown unit> keeps the limit N with a period of 60 seconds.
C39_ParseRateLimitTable ==
    ParseCalled =>
        IF ~ WrittenAsRate(last.arg) THEN last.outcome = << 10, 60 >>
        ELSE IF UnitSeconds(UnitOf(last.arg)) # None
        THEN last.outcome = << LimitOf(last.arg), The(UnitSeconds(UnitOf(last.arg))) >>
        ELSE last.outcome = << LimitOf(last.arg), 60 >>

\* "5/unknown" was parsed to (5, 60)
C39_Witness ==
    /\ ParseCalled
    /\ last.arg = << "5", "/", "u", "n", "k", "n", "o", "w", "n" >>
    /\ last.outcome = << 5, 60 >>

\* check_rate_limit is called in this step with the token of the one user
PolicyChecked ==
    /\ ticks' = ticks
    /\ last'.kind = "check_rate_limit"
    /\ last'.token = Some("dev-token")

\* the timestamps of the user's window younger than the period
Younger(period) ==
    { i \in 1..Len(Window(rate_limit_tracker, "dev-token")) :
          Window(rate_limit_tracker, "dev-token")[i] > now - period }

\* the check answers as a limiter of the given limit and period does
AnswersAs(limit, period) ==
    (last'.outcome = "True") <=> (Cardinality(Younger(period)) < limit)

\* C31 as stated: when the user's rate_limit is not written <N>/<unit>, or
\* its unit is not one of the four, check_rate_limit applies limit 10 and
\* period 60.
C31_DefaultPolicyOnAnyFailure ==
    [][ LET s == users["dev-token"].rate_limit IN
        (PolicyChecked /\ (~ WrittenAsRate(s) \/ UnitSeconds(UnitOf(s)) = None))
            => AnswersAs(10, 60) ]_vars

\* C31: when the user's rate_limit is not written <N>/<unit>,
\* check_rate_limit applies limit 10 and period 60; when it is written
\* <N>/<unit> with a unit that is not one of the four, it applies limit N and
\* period 60.
C31_DefaultPolicyOnParseFailure ==
    [][ LET s == users["dev-token"].rate_limit IN
        /\ (PolicyChecked /\ ~ WrittenAsRate(s)) => AnswersAs(10, 60)
        /\ (PolicyChecked /\ WrittenAsRate(s) /\ UnitSeconds(UnitOf(s)) = None)
               => AnswersAs(LimitOf(s), 60) ]_vars

\* the user's rate_limit is "x": ten checks were allowed at one instant and
\* the eleventh is denied
C31_Witness ==
    /\ users["dev-token"].rate_limit = << "x" >>
    /\ Len(Window(rate_limit_tracker, "dev-token")) = 10
    /\ last.kind = "check_rate_limit"
    /\ last.token = Some("dev-token")
    /\ last.outcome = "False"

\* ------------------------------------ reading checks of unknown tokens

\* a step that is a direct call of check_rate_limit for a token that is not
\* in the user table
UnknownCheckStep ==
    /\ ticks' = ticks
    /\ last'.transport = "direct"
    /\ last'.kind = "check_rate_limit"
    /\ The(last'.token) \notin DOMAIN users

\* C32: check_rate_limit for a token that is not in the user table answers
\* false and changes nothing, the first time and every later time: the
\* tracker is left as it was, with no window for the token, and so is the
\* user table.
C32_UnknownTokenNoMutation ==
    [][ /\ UnknownCheckStep =>
               /\ last'.outcome = "False"
               /\ rate_limit_tracker' = rate_limit_tracker
               /\ users' = users
        /\ DOMAIN rate_limit_tracker' \subseteq DOMAIN users ]_vars

\* "bad-token" was checked and refused after the developer had used both
\* slots: the tracker holds the developer's window and nothing else
C32_Witness ==
    /\ last.kind = "check_rate_limit"
    /\ last.token = Some("bad-token")
    /\ last.outcome = "False"
    /\ DOMAIN rate_limit_tracker = { "dev-token" }
    /\ Len(rate_limit_tracker["dev-token"]) = 2

\* ----------------------------------- reading the limiter as a window

\* how many checks of the token were allowed in the interval (t - period, t]
AllowedIn(token, t) ==
    Cardinality({ i \in 1..Len(granted[token]) :
                      granted[token][i] > t - Period(token) /\ granted[token][i] <= t })

\* the times at which the number of allowed checks in (t - period, t] can
\* reach a new maximum: the times of the allowed checks, and now
Ends(token) == { granted[token][i] : i \in 1..Len(granted[token]) } \cup { now }

\* C33: for every configured token with limit N >= 1 and period P, whatever
\* checks were made at whatever non-decreasing times, no interval (t - P, t]
\* holds more than N checks that were allowed, for any t and not only for t
\* a multiple of P.  (The number of an interval grows only as t reaches an
\* allowed check: the intervals that end at one stand for all.)
C33_TrueSlidingWindow ==
    \A token \in DOMAIN users :
        Limit(token) >= 1 =>
            \A t \in Ends(token) : AllowedIn(token, t) <= Limit(token)

\* with 2 per minute, checks were allowed at 59 (twice) and again at 119 and
\* denied at 60: the intervals (0, 60] and (59, 119] each hold two of them
C33_Witness ==
    /\ granted["dev-token"] = << 59, 59, 119 >>
    /\ now = 119
    /\ AllowedIn("dev-token", 60) = 2
    /\ AllowedIn("dev-token", 119) = 1

\* ------------------------------------------- reading the end of an answer

\* the frame ends an answer: an ARSP, an ERRO, or the CHNK with final: true
Terminates(f) == f.type \in { "ARSP", "ERRO" } \/ (f.type = "CHNK" /\ f.payload.final)

\* the frames end with a terminating frame and hold no other
OneTerminator(written) ==
    /\ written # << >>
    /\ \A i \in 1..Len(written) : Terminates(written[i]) <=> i = Len(written)

\* the handler of the frame the session took has returned with the client
\* still there: the session reads again, or it was closed from there
Answered(session) ==
    /\ session.frame # None
    /\ \/ session.state = "reading"
       \/ session.state = "closed" /\ session.provider # "streaming"

\* the answers of the sessions and of the byte-level connection end as they
\* should, an AUTH being answered by one frame of one of the types given
AnswersEnd(auth_answers) ==
    /\ \A c \in Conns :
          LET s == sessions[c] IN
          /\ s.state = "relaying" =>
                \A i \in 1..Len(s.written) : ~ Terminates(s.written[i])
          /\ Answered(s) =>
                /\ OneTerminator(s.written)
                /\ The(s.frame).type = "AUTH" =>
                      /\ Len(s.written) = 1
                      /\ s.written[1].type \in auth_answers
                /\ (The(s.frame).type = "COMP" /\ s.provider = "idle") =>
                      /\ Len(s.written) = 1
                      /\ s.written[1].type = "ERRO"
                /\ (The(s.frame).type = "COMP" /\ s.provider # "idle") =>
                      /\ \A i \in 1..(Len(s.written) - 1) : s.written[i].type = "CHNK"
                      /\ s.provider = "ended" =>
                            s.written[Len(s.written)].type = "CHNK"
                      /\ s.provider = "raised" =>
                            s.written[Len(s.written)].type = "ERRO"
                /\ The(s.frame).type \notin { "AUTH", "COMP" } =>
                      /\ Len(s.written) = 1
                      /\ s.written[1].type = "ERRO"
    /\ conn.state = "relaying" =>
          \A i \in 1..Len(conn.written) : ~ Terminates(conn.written[i])
    /\ (conn.state = "reading" /\ conn.read.status \in { "ok", "ValueError" }) =>
          OneTerminator(conn.written)
    /\ (conn.state = "reading" /\ conn.read.status = "ValueError") =>
          conn.written = << CreateErrorResponse("INVALID_FORMAT") >>

\* C34 as stated: while the client stays connected every frame the session
\* dispatches is answered by frames that end with exactly one terminating
\* frame: exactly one ARSP for an AUTH; exactly one ERRO for a rejected,
\* unknown or malformed-payload frame; for an admitted COMP zero or more
\* CHNK{final: false}, then one CHNK{final: true} or one ERRO, never both
\* and never neither.
C34_AuthAnsweredByArsp == AnswersEnd({ "ARSP" })

\* C34, amended: as above, but an AUTH is answered by exactly one ARSP or,
\* when _handle_auth fails on its payload, by exactly one ERRO{AUTH_ERROR}.
C34_OneTerminatingFrame ==
    /\ AnswersEnd({ "ARSP", "ERRO" })
    /\ \A c \in Conns :
          ( /\ Answered(sessions[c])
            /\ The(sessions[c].frame).type = "AUTH"
            /\ sessions[c].written[1].type = "ERRO" ) =>
              /\ sessions[c].written = << CreateErrorResponse("AUTH_ERROR") >>
              /\ The(sessions[c].frame).payload \in OddPayloads

\* C34 witness: an AUTH whose payload is a list was answered by the one
\* ERRO{AUTH_ERROR} on a session that reads on, beside a relay that ended
\* with its final CHNK
C34_Witness ==
    /\ sessions[1].state = "reading"
    /\ sessions[1].frame = Some([type |-> "AUTH", payload |-> [json |-> "[]"]])
    /\ sessions[1].written = << CreateErrorResponse("AUTH_ERROR") >>
    /\ sessions[2].provider = "ended"
    /\ sessions[2].written = << CreateCompletionChunk("Hello", FALSE),
                                CreateCompletionChunk("", TRUE) >>

\* C34 witness on the bytes: a payload that is no JSON was answered by the
\* one ERRO{INVALID_FORMAT}
C34_WitnessMalformed ==
    /\ conn.state = "reading"
    /\ conn.read.status = "ValueError"
    /\ conn.written = << CreateErrorResponse("INVALID_FORMAT") >>

\* ------------------------------------- reading the slots of the windows

\* chat_completions takes a request in this step (no exchange in flight, no
\* WebSocket), or the WebSocket loop takes a message
HttpTaken ==
    /\ ws = NotOpened /\ ws' = ws
    /\ ~ InFlight(http)
    /\ now' = now
    /\ vars' # vars

WsTaken ==
    /\ ws.state = "open"
    /\ ws'.state \in { "open", "relaying" }
    /\ now' = now
    /\ vars' # vars

\* the answers of a request that did not reach the rate-limit step, and of
\* one that was refused there
RefusedBefore == { "401", "authentication_error" }

RefusedAtLimit == { "429", "rate_limit_error" }

\* C35: on HTTP and WebSocket a request that passes the rate-limit step
\* occupies one slot of the caller's window even if it is then rejected
\* (WebSocket missing model, unauthorized model, model not found) or its
\* provider fails: the timestamp is appended and no later step of the
\* exchange takes it away; a request rejected at the token's extraction or
\* at authentication changes no window.
C35_RejectedRequestsCount ==
    [][ /\ (HttpTaken \/ WsTaken) =>
             /\ last'.outcome \in RefusedBefore =>
                   rate_limit_tracker' = rate_limit_tracker
             /\ last'.outcome \notin (RefusedBefore \cup RefusedAtLimit) =>
                   LET token == The(last'.token) IN
                   /\ Window(rate_limit_tracker', token) =
                          Append(Fresh(Window(rate_limit_tracker, token),
                                       now - Period(token)), now)
                   /\ \A other \in DOMAIN rate_limit_tracker' \ { token } :
                          /\ other \in DOMAIN rate_limit_tracker
                          /\ rate_limit_tracker'[other] = rate_limit_tracker[other]
        /\ (InFlight(http) \/ ws.state = "relaying") =>
              rate_limit_tracker' = rate_limit_tracker
      ]_vars

\* C35 witness: the guest, who may use no model and has one request per
\* second, was refused a model and holds the slot of that request; asking
\* again in the same second, the guest is refused at the rate limit
C35_Witness ==
    /\ http.state = "done"
    /\ last.transport = "http"
    /\ last.token = Some("guest-token")
    /\ last.outcome = "429"
    /\ rate_limit_tracker["guest-token"] = << 60 >>
    /\ now = 60

\* C35 witness: the provider of an admitted WebSocket message raised, and
\* the slot of the message is still in the window
C35_WitnessProvider ==
    /\ ws.state = "open"
    /\ ws.provider = "raised"
    /\ last.token = Some("dev-token")
    /\ rate_limit_tracker["dev-token"] = << 0 >>

\* ---------------------------------------------- reading the relay loop

\* the relay asks the provider for a fragment in this step
Pulls == relay.state = "relaying" /\ relay'.state = "relaying"
             /\ Len(relay'.pulled) = Len(relay.pulled) + 1

\* C36: during a streaming relay on any transport the server asks the
\* provider for fragment i+1 only after the write of fragment i's frame has
\* returned: when it asks, every non-empty fragment it got has been written
\* and it holds none; it never holds more than one fragment, and while a
\* write waits nothing is taken from the provider.
C36_PullAfterWrite ==
    [][ /\ relay.state # "none" => Len(relay.held) <= 1
        /\ relay'.state # "none" => Len(relay'.held) <= 1
        /\ Pulls =>
              /\ relay.held = << >>
              /\ relay.completed = NonEmpty(relay.pulled)
        /\ ( /\ relay.state = "relaying"
             /\ relay.at = WriteAwait(relay.transport)
             /\ relay'.state = "relaying" ) =>
              relay'.pulled = relay.pulled
      ]_vars

\* C36 witness: on TCP the second fragment waits in drain: the first was
\* written before the second was asked for, and no third one is there
C36_Witness ==
    /\ relay.state = "relaying"
    /\ relay.transport = "tcp"
    /\ relay.at = "drain"
    /\ relay.pulled = << "Hello", " world" >>
    /\ relay.completed = << "Hello" >>
    /\ relay.held = << " world" >>

\* ------------------------------------- reading who changes the tables

\* the step is a call of check_rate_limit for the token: a direct one, or
\* the one chat_completions and the WebSocket loop make for the token they
\* have authenticated
ChecksRateLimitOf(token) ==
    /\ now' = now
    /\ last'.token = Some(token)
    /\ \/ last'.transport = "direct" /\ last'.kind = "check_rate_limit"
       \/ /\ last'.transport \in { "http", "ws" }
          /\ last'.kind = "chat"
          /\ last'.outcome \notin { "401", "authentication_error" }

\* the tokens that have or get a window
Windowed == DOMAIN rate_limit_tracker \cup DOMAIN rate_limit_tracker'

\* C37: after load no operation and no handler of a transport changes the
\* user table, and a token's rate window changes only in a call of
\* check_rate_limit for that token: authenticate, is_authorized and
\* get_user_info change no window, check_rate_limit(a) changes the window
\* of no b # a, and no window is pruned by anything else, the passing of
\* time included.
C37_WindowsOwnedByChecks ==
    [][ /\ users' = users
        /\ \A b \in Windowed :
              ( \/ b \notin DOMAIN rate_limit_tracker
                \/ b \notin DOMAIN rate_limit_tracker'
                \/ rate_limit_tracker'[b] # rate_limit_tracker[b] ) =>
                  ChecksRateLimitOf(b)
        /\ ( /\ last' # last
             /\ last'.kind \in { "authenticate", "is_authorized", "get_user_info" } ) =>
              rate_limit_tracker' = rate_limit_tracker
        /\ now' # now => rate_limit_tracker' = rate_limit_tracker
      ]_vars

\* C37 witness: the developer's window holds a timestamp that is a period
\* old after time has passed and get_user_info was called for the
\* developer, and the guest's window is as the guest's own check left it
C37_Witness ==
    /\ last.kind = "get_user_info"
    /\ last.token = Some("dev-token")
    /\ last.outcome = Some([name |-> "Developer",
                            permissions |-> << "llama3", "gpt-4o" >>,
                            rate_limit |-> << "2", "/", "m", "i", "n", "u", "t", "e" >>])
    /\ now = 60
    /\ rate_limit_tracker = ("guest-token" :> << 60 >>) @@ ("dev-token" :> << 0 >>)

\* ------------------------------------------- reading _extract_token

\* the headers _extract_token refuses: none, or one that does not start
\* with "Bearer "
Refused ==
    { h \in Headers \cup LooseHeaders : h = NoHeader \/ The(h).prefix # "Bearer " }

\* C38: an HTTP request to /v1/models or to /v1/chat/completions with no
\* Authorization header, or with one that does not start with "Bearer ", is
\* answered 401 at the extraction of the token, before authenticate,
\* check_rate_limit, is_authorized or a provider is called: whatever follows
\* the scheme, no rate window changes, no list is made and no provider
\* starts.
C38_NoBearerRejectedAtExtraction ==
    [][ /\ (http'.state # "none" /\ http'.route = "chat") =>
              \A h \in Refused, m \in Models, s \in StreamFlags :
                  HttpExchange(h, m, s) =>
                      /\ http'.status = "401"
                      /\ http'.state = "done"
                      /\ http'.provider = "idle"
                      /\ last'.outcome = "401"
                      /\ last'.token = None
                      /\ ~ last'.started
                      /\ rate_limit_tracker' = rate_limit_tracker
        /\ (http'.state # "none" /\ http'.route = "models") =>
              \A h \in Refused :
                  HttpListModels(h) =>
                      /\ http'.status = "401"
                      /\ http'.data = None
                      /\ rate_limit_tracker' = rate_limit_tracker
                      /\ last' = last
      ]_vars

\* C38 witness: the models were asked for with the developer's token under
\* another scheme, and refused
C38_Witness ==
    /\ ModelsListed
    /\ http.authorization = Some([prefix |-> "Basic  ", rest |-> "dev-token"])
    /\ http.status = "401"
    /\ rate_limit_tracker = << >>

\* C38 witness: a completion asked for with no usable header was refused
\* after one of the developer's was served, whose slot is all the window has
C38_WitnessChat ==
    /\ ChatAsked
    /\ http.status = "401"
    /\ last.token = None
    /\ rate_limit_tracker = ("dev-token" :> << 0 >>)

\* ------------------------------------------- reading the provider handles

\* the handles of the loaded router: << id, provider >> in the order of
\* their insertions
Handles == model_router.model_providers

\* C40: after load_models any two distinct model ids that have live handles
\* map to two distinct provider instances, even when their entries name the
\* same provider_type: every handle is the instance constructed for an entry
\* of its own id, and no instance is the handle of two ids.
C40_OneInstancePerId ==
    Loaded =>
        /\ \A i, j \in 1..Len(Handles) :
              Handles[i][1] # Handles[j][1] => Handles[i][2] # Handles[j][2]
        /\ \A i \in 1..Len(Handles) :
              /\ Handles[i][2].obj \in 1..Len(model_router.cfg)
              /\ model_router.cfg[Handles[i][2].obj].id = Handles[i][1]

\* C40 witness: two ids of the same provider type, each with an instance of
\* its own
C40_Witness ==
    /\ Loaded
    /\ model_router.cfg = << [id |-> "llama3", provider |-> "ollama"],
                             [id |-> "mistral", provider |-> "ollama"] >>
    /\ Handles = << << "llama3", [class |-> "OllamaProvider", obj |-> 1] >>,
                    << "mistral", [class |-> "OllamaProvider", obj |-> 2] >> >>
====
